---------------------------- MODULE Spec2Model ----------------------------
(***************************************************************************)
(* A model of the H-Terminal command-line pipeline: the tokenizer and the  *)
(* input parser of CommandProcessor, the VirtualFileSystem, the command    *)
(* handlers, the dispatcher (executeCommand) and the script interpreter.   *)
(*                                                                         *)
(* A JavaScript string is modelled as a sequence of one-character strings, *)
(* so that startsWith, slice, split and the character scanner of the       *)
(* tokenizer are computed as the code computes them.  Sequences are        *)
(* 1-based here where the code's arrays and strings are 0-based; every     *)
(* operator that returns a JavaScript index says which base it uses.       *)
(***************************************************************************)
EXTENDS Integers, Sequences, FiniteSets, TLC

VARIABLES
    root,          \* VirtualFileSystem.root
    currentPath,   \* VirtualFileSystem.currentPath
    commands,      \* CommandProcessor.commands
    aliases,       \* CommandProcessor.aliases
    environment,   \* HTerminal.environment
    history,       \* TerminalHistory: history and currentIndex
    loop,          \* the host's event loop: key events, suspended executions
    last           \* observation of the last operation: its input and what it returned

vars == <<root, currentPath, commands, aliases, environment, history, loop, last>>

(***************************************************************************)
(* Strings                                                                 *)
(***************************************************************************)

StartsWith(s, p) ==
    Len(s) >= Len(p) /\ SubSeq(s, 1, Len(p)) = p

EndsWith(s, p) ==
    Len(s) >= Len(p) /\ SubSeq(s, Len(s) - Len(p) + 1, Len(s)) = p

\* s.slice(n): the characters from 0-based index n on.
Slice(s, n) ==
    SubSeq(s, n + 1, Len(s))

\* s.substring(a, b) with 0-based a <= b.
Substring(s, a, b) ==
    SubSeq(s, a + 1, b)

\* s.indexOf(c) for a one-character c: the 0-based index, or -1.
IndexOf(s, c) ==
    IF \E k \in 1..Len(s) : s[k] = c
    THEN (CHOOSE k \in 1..Len(s) : s[k] = c /\ \A m \in 1..(k - 1) : s[m] # c) - 1
    ELSE -1

\* s.includes(sub)
Includes(s, sub) ==
    \E k \in 0..(Len(s) - Len(sub)) : SubSeq(s, k + 1, k + Len(sub)) = sub

IsSpaceChar(c) ==
    c \in {" ", "\n", "\t", "\r"}

RECURSIVE TrimStart(_)
TrimStart(s) ==
    IF s # <<>> /\ IsSpaceChar(s[1]) THEN TrimStart(Tail(s)) ELSE s

RECURSIVE TrimEnd(_)
TrimEnd(s) ==
    IF s # <<>> /\ IsSpaceChar(s[Len(s)]) THEN TrimEnd(SubSeq(s, 1, Len(s) - 1)) ELSE s

\* s.trim()
Trim(s) ==
    TrimEnd(TrimStart(s))

UpperChars == <<"A", "B", "C", "D", "E", "F", "G", "H", "I", "J", "K", "L", "M",
                "N", "O", "P", "Q", "R", "S", "T", "U", "V", "W", "X", "Y", "Z">>

LowerChars == <<"a", "b", "c", "d", "e", "f", "g", "h", "i", "j", "k", "l", "m",
                "n", "o", "p", "q", "r", "s", "t", "u", "v", "w", "x", "y", "z">>

\* The lower-case letter of each upper-case letter
LowerOf ==
    [c \in { UpperChars[k] : k \in 1..Len(UpperChars) } |->
        LowerChars[CHOOSE k \in 1..Len(UpperChars) : UpperChars[k] = c]]

LowerChar(c) ==
    IF c \in DOMAIN LowerOf THEN LowerOf[c] ELSE c

\* s.toLowerCase()
ToLowerCase(s) ==
    [k \in 1..Len(s) |-> LowerChar(s[k])]

\* parts.join(sep), sep a string
RECURSIVE Join(_, _)
Join(parts, sep) ==
    IF parts = <<>> THEN <<>>
    ELSE IF Len(parts) = 1 THEN parts[1]
    ELSE parts[1] \o sep \o Join(Tail(parts), sep)

\* s.split(c) for a one-character separator c (empty pieces are kept)
RECURSIVE SplitFrom(_, _, _, _)
SplitFrom(s, c, k, cur) ==
    IF k > Len(s) THEN <<cur>>
    ELSE IF s[k] = c THEN <<cur>> \o SplitFrom(s, c, k + 1, <<>>)
    ELSE SplitFrom(s, c, k + 1, Append(cur, s[k]))

Split(s, c) ==
    SplitFrom(s, c, 1, <<>>)

\* array.filter(pred) for the predicate "is not the empty string" (p => p)
RECURSIVE FilterNonEmpty(_)
FilterNonEmpty(parts) ==
    IF parts = <<>> THEN <<>>
    ELSE IF parts[1] = <<>> THEN FilterNonEmpty(Tail(parts))
    ELSE <<parts[1]>> \o FilterNonEmpty(Tail(parts))

(***************************************************************************)
(* A value that may be undefined (string | undefined, Node | null)         *)
(***************************************************************************)

Undefined == [defined |-> FALSE]

Some(v) == [defined |-> TRUE, value |-> v]

(***************************************************************************)
(* Map<string, V>: a function whose domain is the set of keys              *)
(***************************************************************************)

EmptyMap == [k \in {} |-> k]

MapHas(m, k) == k \in DOMAIN m

MapSet(m, k, v) ==
    [x \in (DOMAIN m) \cup {k} |-> IF x = k THEN v ELSE m[x]]

MapDelete(m, k) ==
    [x \in (DOMAIN m) \ {k} |-> m[x]]

(***************************************************************************)
(* CommandProcessor.tokenize                                               *)
(***************************************************************************)

TokenizerStart ==
    [tokens |-> <<>>, current |-> <<>>, inQuotes |-> FALSE, quoteChar |-> "",
     escaped |-> FALSE]

\* The scanner taking a backslash inside quotes as a character of the token
tokenizeCharQuotedBackslash(st, char) ==
    IF st.escaped
    THEN [st EXCEPT !.current = Append(@, char), !.escaped = FALSE]
    ELSE IF char = "\\" /\ ~st.inQuotes
    THEN [st EXCEPT !.escaped = TRUE]
    ELSE IF ~st.inQuotes /\ (char = "\"" \/ char = "'")
    THEN [st EXCEPT !.inQuotes = TRUE, !.quoteChar = char]
    ELSE IF st.inQuotes /\ char = st.quoteChar
    THEN [st EXCEPT !.inQuotes = FALSE, !.quoteChar = ""]
    ELSE IF ~st.inQuotes /\ char = " "
    THEN (IF st.current # <<>>
          THEN [st EXCEPT !.tokens = Append(@, st.current), !.current = <<>>]
          ELSE st)
    ELSE [st EXCEPT !.current = Append(@, char)]

\* The scanner ending a token at every space, and at the closing quote
tokenizeCharPushing(st, char) ==
    IF st.escaped
    THEN [st EXCEPT !.current = Append(@, char), !.escaped = FALSE]
    ELSE IF char = "\\"
    THEN [st EXCEPT !.escaped = TRUE]
    ELSE IF ~st.inQuotes /\ (char = "\"" \/ char = "'")
    THEN [st EXCEPT !.inQuotes = TRUE, !.quoteChar = char]
    ELSE IF st.inQuotes /\ char = st.quoteChar
    THEN [st EXCEPT !.tokens = Append(@, st.current), !.current = <<>>,
                    !.inQuotes = FALSE, !.quoteChar = ""]
    ELSE IF ~st.inQuotes /\ char = " "
    THEN [st EXCEPT !.tokens = Append(@, st.current), !.current = <<>>]
    ELSE [st EXCEPT !.current = Append(@, char)]

\* One iteration of the scanner's loop, on character char.
tokenizeChar(st, char) ==
    IF st.escaped
    THEN [st EXCEPT !.current = Append(@, char), !.escaped = FALSE]
    ELSE IF char = "\\"
    THEN [st EXCEPT !.escaped = TRUE]
    ELSE IF ~st.inQuotes /\ (char = "\"" \/ char = "'")
    THEN [st EXCEPT !.inQuotes = TRUE, !.quoteChar = char]
    ELSE IF st.inQuotes /\ char = st.quoteChar
    THEN [st EXCEPT !.inQuotes = FALSE, !.quoteChar = ""]
    ELSE IF ~st.inQuotes /\ char = " "
    THEN (IF st.current # <<>>
          THEN [st EXCEPT !.tokens = Append(@, st.current), !.current = <<>>]
          ELSE st)
    ELSE [st EXCEPT !.current = Append(@, char)]

\* The scanner refusing to flush what it holds when the line ends inside quotes
RECURSIVE tokenizeFromStrict(_, _, _)
tokenizeFromStrict(input, k, st) ==
    IF k > Len(input)
    THEN (IF st.current # <<>> /\ ~st.inQuotes
          THEN Append(st.tokens, st.current) ELSE st.tokens)
    ELSE tokenizeFromStrict(input, k + 1, tokenizeChar(st, input[k]))

tokenizeStrict(input) ==
    tokenizeFromStrict(input, 1, TokenizerStart)

RECURSIVE tokenizeFrom(_, _, _)
tokenizeFrom(input, k, st) ==
    IF k > Len(input)
    THEN (IF st.current # <<>> THEN Append(st.tokens, st.current) ELSE st.tokens)
    ELSE tokenizeFrom(input, k + 1, tokenizeChar(st, input[k]))

tokenize(input) ==
    tokenizeFrom(input, 1, TokenizerStart)

(***************************************************************************)
(* CommandProcessor.parseInput and processToken                            *)
(***************************************************************************)

\* A flag's value: true, or a string.
FlagTrue == [kind |-> "boolean", value |-> <<>>]

FlagString(s) == [kind |-> "string", value |-> s]

\* The value-taking look-ahead of a flag: is there a next token (1-based i + 1)
\* that does not start with a dash?
NextIsValue(tokens, i) ==
    i + 1 <= Len(tokens) /\ ~StartsWith(tokens[i + 1], <<"-">>)

\* The loop over the characters of a short-flag group (j is 1-based).
RECURSIVE shortFlags(_, _, _, _)
shortFlags(flagChars, j, tokens, st) ==
    IF j > Len(flagChars) THEN st
    ELSE IF j = Len(flagChars) /\ NextIsValue(tokens, st.i)
    THEN shortFlags(flagChars, j + 1, tokens,
                    [st EXCEPT !.flags = MapSet(@, <<flagChars[j]>>,
                                                FlagString(tokens[st.i + 1])),
                               !.i = @ + 1])
    ELSE shortFlags(flagChars, j + 1, tokens,
                    [st EXCEPT !.flags = MapSet(@, <<flagChars[j]>>, FlagTrue)])

\* processToken on tokens[st.i]; the i of the result is the index it returns.
processToken(tokens, st) ==
    LET token == tokens[st.i]
        i == st.i
    IN  IF token = <<">">> \/ token = <<">", ">">>
        THEN (IF i + 1 <= Len(tokens)
              THEN [st EXCEPT !.redirectToFile = Some(tokens[i + 1]),
                              !.redirectMode =
                                  IF token = <<">", ">">> THEN "append" ELSE "write",
                              !.i = i + 1]
              ELSE st)
        ELSE IF StartsWith(token, <<"-", "-">>)
        THEN LET equalIndex == IndexOf(token, "=")
             IN  IF equalIndex > 0
                 THEN [st EXCEPT !.flags =
                          MapSet(@, Substring(token, 2, equalIndex),
                                 FlagString(Slice(token, equalIndex + 1)))]
                 ELSE IF NextIsValue(tokens, i)
                 THEN [st EXCEPT !.flags =
                          MapSet(@, Slice(token, 2), FlagString(tokens[i + 1])),
                                 !.i = i + 1]
                 ELSE [st EXCEPT !.flags = MapSet(@, Slice(token, 2), FlagTrue)]
        ELSE IF StartsWith(token, <<"-">>) /\ Len(token) > 1
        THEN shortFlags(Slice(token, 1), 1, tokens, st)
        ELSE [st EXCEPT !.args = Append(@, token)]

\* for (let i = 1; i < tokens.length; i++) { i = this.processToken(...) }
RECURSIVE parseLoop(_, _)
parseLoop(tokens, st) ==
    IF st.i > Len(tokens) THEN st
    ELSE LET done == processToken(tokens, st)
         IN  parseLoop(tokens, [done EXCEPT !.i = @ + 1])

ParsedOf(command, st) ==
    [command |-> command, args |-> st.args, flags |-> st.flags,
     redirectToFile |-> st.redirectToFile, redirectMode |-> st.redirectMode]

\* parseInput pushing the script name after the other arguments
parseInputNameLast(input) ==
    LET tokens == tokenize(input)
        start == [i |-> 2, args |-> <<>>, flags |-> EmptyMap,
                  redirectToFile |-> Undefined, redirectMode |-> "undefined"]
    IN  IF Len(tokens) = 0
        THEN ParsedOf(<<>>, start)
        ELSE IF StartsWith(tokens[1], <<".", "/">>) /\ Len(tokens[1]) > 2
        THEN ParsedOf(<<".", "/">>,
                      [parseLoop(tokens, start) EXCEPT !.args = Append(@, Slice(tokens[1], 2))])
        ELSE ParsedOf(tokens[1], parseLoop(tokens, start))

parseInput(input) ==
    LET tokens == tokenize(input)
        start == [i |-> 2, args |-> <<>>, flags |-> EmptyMap,
                  redirectToFile |-> Undefined, redirectMode |-> "undefined"]
    IN  IF Len(tokens) = 0
        THEN ParsedOf(<<>>, start)
        ELSE IF StartsWith(tokens[1], <<".", "/">>) /\ Len(tokens[1]) > 2
        THEN ParsedOf(<<".", "/">>,
                      parseLoop(tokens, [start EXCEPT !.args = <<Slice(tokens[1], 2)>>]))
        ELSE ParsedOf(tokens[1], parseLoop(tokens, start))


(***************************************************************************)
(* String literals of the source                                           *)
(***************************************************************************)

HomeDirectory == <<"/", "h", "o", "m", "e", "/", "u", "s", "e", "r">>

ReadmeContent == <<"W", "e", "l", "c", "o", "m", "e", " ", "t", "o", " ", "H", "-", "T", "e", "r", "m", "i", "n", "a", "l", "!", "\n", "T", "h", "i", "s", " ", "i", "s", " ", "a", " ", "v", "i", "r", "t", "u", "a", "l", " ", "f", "i", "l", "e", " ", "s", "y", "s", "t", "e", "m", ".">>

ScriptContent == <<"#", "!", "/", "b", "i", "n", "/", "b", "a", "s", "h", "\n", "e", "c", "h", "o", " ", "\"", "H", "e", "l", "l", "o", " ", "W", "o", "r", "l", "d", "!", "\"">>

N_home == <<"h", "o", "m", "e">>
N_user == <<"u", "s", "e", "r">>
N_Documents == <<"D", "o", "c", "u", "m", "e", "n", "t", "s">>
N_Downloads == <<"D", "o", "w", "n", "l", "o", "a", "d", "s">>
N_Pictures == <<"P", "i", "c", "t", "u", "r", "e", "s">>
N_Videos == <<"V", "i", "d", "e", "o", "s">>
N_readme == <<"r", "e", "a", "d", "m", "e", ".", "t", "x", "t">>
N_script == <<"s", "c", "r", "i", "p", "t", ".", "s", "h">>

(***************************************************************************)
(* VirtualFileSystem: nodes                                                *)
(*                                                                         *)
(* A node is a record; content and children are fields that may be         *)
(* undefined.  children is the Map of the source in insertion order: a     *)
(* sequence of [key, node] entries with distinct keys.  The timestamps and *)
(* the permission string are not modelled (nothing reads them but the long *)
(* listing).                                                               *)
(***************************************************************************)

Truthy(opt) ==
    opt.defined /\ opt.value # <<>>

\* createNode(name, type, content?): content is a value that may be undefined
createNode(name, type, content) ==
    [name |-> name,
     type |-> type,
     content |-> Some(IF Truthy(content) THEN content.value ELSE <<>>),
     children |-> IF type = "directory" THEN Some(<<>>) ELSE Undefined,
     size |-> IF Truthy(content) THEN Len(content.value) ELSE 0]

\* Map.has / get / set / delete on the entries of a children map
EntryIndex(entries, key) ==
    IF \E k \in 1..Len(entries) : entries[k].key = key
    THEN CHOOSE k \in 1..Len(entries) : entries[k].key = key
    ELSE 0

EntriesHas(entries, key) ==
    EntryIndex(entries, key) # 0

EntriesGet(entries, key) ==
    entries[EntryIndex(entries, key)].node

EntriesSet(entries, key, node) ==
    IF EntriesHas(entries, key)
    THEN [entries EXCEPT ![EntryIndex(entries, key)] = [key |-> key, node |-> node]]
    ELSE Append(entries, [key |-> key, node |-> node])

EntriesDelete(entries, key) ==
    LET at == EntryIndex(entries, key)
    IN  IF at = 0 THEN entries
        ELSE SubSeq(entries, 1, at - 1) \o SubSeq(entries, at + 1, Len(entries))

DirectoryOf(entries) ==
    [name |-> <<>>, type |-> "directory", content |-> Undefined,
     children |-> Some(entries), size |-> 0]

WithChildren(node, entries) ==
    [node EXCEPT !.children = Some(entries)]

Entry(node) == [key |-> node.name, node |-> node]

\* createInitialStructure(): /home/user with four directories and two files
InitialRoot ==
    LET none == Undefined
        documents == createNode(N_Documents, "directory", none)
        downloads == createNode(N_Downloads, "directory", none)
        pictures == createNode(N_Pictures, "directory", none)
        videos == createNode(N_Videos, "directory", none)
        readme == createNode(N_readme, "file", Some(ReadmeContent))
        script == createNode(N_script, "file", Some(ScriptContent))
        user == WithChildren(createNode(N_user, "directory", none),
                             <<Entry(documents), Entry(downloads), Entry(pictures),
                               Entry(videos), Entry(readme), Entry(script)>>)
        home == WithChildren(createNode(N_home, "directory", none), <<Entry(user)>>)
    IN  DirectoryOf(<<Entry(home)>>)

\* The node reached from node by the keys of loc, one children map at a time.
RECURSIVE walk(_, _)
walk(node, parts) ==
    IF parts = <<>> THEN Some(node)
    ELSE IF ~node.children.defined \/ ~EntriesHas(node.children.value, parts[1])
    THEN Undefined
    ELSE walk(EntriesGet(node.children.value, parts[1]), Tail(parts))

\* The tree with the node at loc (a sequence of keys that walk resolves) replaced:
\* the effect of mutating, through a reference, the node that walk returned.
RECURSIVE ReplaceAt(_, _, _)
ReplaceAt(node, loc, new) ==
    IF loc = <<>> THEN new
    ELSE WithChildren(node,
             EntriesSet(node.children.value, loc[1],
                        ReplaceAt(EntriesGet(node.children.value, loc[1]), Tail(loc), new)))

\* absolutePath.split('/').filter(p => p)
PathParts(absolutePath) ==
    FilterNonEmpty(Split(absolutePath, "/"))

(***************************************************************************)
(* VirtualFileSystem: paths                                                *)
(***************************************************************************)

getAbsolutePath(path) ==
    IF path = <<"~">> THEN HomeDirectory
    ELSE IF StartsWith(path, <<"~", "/">>) THEN HomeDirectory \o Slice(path, 1)
    ELSE IF StartsWith(path, <<"/">>) THEN path
    ELSE HomeDirectory \o <<"/">> \o path

\* parts.pop()
Pop(parts) ==
    IF parts = <<>> THEN parts ELSE SubSeq(parts, 1, Len(parts) - 1)

\* the loop of the '../' case over path.split('/')
RECURSIVE applyParts(_, _)
applyParts(parts, pathParts) ==
    IF pathParts = <<>> THEN parts
    ELSE IF pathParts[1] = <<".", ".">> THEN applyParts(Pop(parts), Tail(pathParts))
    ELSE IF pathParts[1] # <<".">> THEN applyParts(Append(parts, pathParts[1]), Tail(pathParts))
    ELSE applyParts(parts, Tail(pathParts))

\* resolvePath without its case for a path that starts with a slash
resolvePathRelative(fs, path) ==
    LET currentAbsolute == getAbsolutePath(fs.currentPath)
    IN  IF path = <<"~">> THEN HomeDirectory
        ELSE IF StartsWith(path, <<"~", "/">>) THEN HomeDirectory \o Slice(path, 1)
        ELSE IF path = <<".">> THEN currentAbsolute
        ELSE IF path = <<".", ".">>
        THEN <<"/">> \o Join(Pop(PathParts(currentAbsolute)), <<"/">>)
        ELSE IF StartsWith(path, <<".", ".", "/">>)
        THEN <<"/">> \o Join(applyParts(PathParts(currentAbsolute), Split(path, "/")), <<"/">>)
        ELSE currentAbsolute
                 \o (IF EndsWith(currentAbsolute, <<"/">>) THEN <<>> ELSE <<"/">>)
                 \o path

resolvePath(fs, path) ==
    LET currentAbsolute == getAbsolutePath(fs.currentPath)
    IN  IF path = <<"~">> THEN HomeDirectory
        ELSE IF StartsWith(path, <<"~", "/">>) THEN HomeDirectory \o Slice(path, 1)
        ELSE IF StartsWith(path, <<"/">>) THEN path
        ELSE IF path = <<".">> THEN currentAbsolute
        ELSE IF path = <<".", ".">>
        THEN <<"/">> \o Join(Pop(PathParts(currentAbsolute)), <<"/">>)
        ELSE IF StartsWith(path, <<".", ".", "/">>)
        THEN <<"/">> \o Join(applyParts(PathParts(currentAbsolute), Split(path, "/")), <<"/">>)
        ELSE currentAbsolute
                 \o (IF EndsWith(currentAbsolute, <<"/">>) THEN <<>> ELSE <<"/">>)
                 \o path

\* The collapse taking every path that begins with the letters of home as a
\* path under home
normalizeDisplayPathByLetters(absolutePath) ==
    IF absolutePath = HomeDirectory THEN <<"~">>
    ELSE IF StartsWith(absolutePath, HomeDirectory)
    THEN <<"~">> \o Slice(absolutePath, Len(HomeDirectory))
    ELSE absolutePath

normalizeDisplayPath(absolutePath) ==
    IF absolutePath = HomeDirectory THEN <<"~">>
    ELSE IF StartsWith(absolutePath, HomeDirectory \o <<"/">>)
    THEN <<"~">> \o Slice(absolutePath, Len(HomeDirectory))
    ELSE absolutePath

getNodeByPath(fs, absolutePath) ==
    IF absolutePath = <<"/">> THEN Some(fs.root)
    ELSE walk(fs.root, PathParts(absolutePath))

getCurrentDirectoryNode(fs) ==
    getNodeByPath(fs, getAbsolutePath(fs.currentPath))

\* Where the current directory's node is: the keys from the root.
CurrentLocation(fs) ==
    PathParts(getAbsolutePath(fs.currentPath))

UsableDirectory(opt) ==
    opt.defined /\ opt.value.children.defined

\* Where getNode(path) finds its node (the keys from the root), if it finds one.
getNodeLocation(fs, path) ==
    IF Includes(path, <<"/">>)
    THEN (IF getNodeByPath(fs, resolvePath(fs, path)).defined
          THEN Some(PathParts(resolvePath(fs, path)))
          ELSE Undefined)
    ELSE (IF UsableDirectory(getCurrentDirectoryNode(fs))
             /\ EntriesHas(getCurrentDirectoryNode(fs).value.children.value, path)
          THEN Some(Append(CurrentLocation(fs), path))
          ELSE Undefined)

getNode(fs, path) ==
    IF getNodeLocation(fs, path).defined
    THEN walk(fs.root, getNodeLocation(fs, path).value)
    ELSE Undefined

exists(fs, path) ==
    getNode(fs, path).defined

readFile(fs, name) ==
    LET node == getNode(fs, name)
    IN  IF ~node.defined \/ node.value.type # "file" THEN Undefined
        ELSE Some(IF Truthy(node.value.content) THEN node.value.content.value ELSE <<>>)


(***************************************************************************)
(* VirtualFileSystem: operations                                           *)
(*                                                                         *)
(* The file system is the record fs = [root, currentPath, log].  An        *)
(* operation that returns a value yields [fs, ret].  log is an observation *)
(* of the calls made to the mutating operations and of what each returned. *)
(***************************************************************************)

Logged(fs, call, arg, ret) ==
    [fs |-> [fs EXCEPT !.log = Append(@, [call |-> call, arg |-> arg, ret |-> ret])],
     ret |-> ret]

\* setCurrentDirectory with the directory test left out
setCurrentDirectoryUnchecked(fs, path) ==
    Logged([fs EXCEPT !.currentPath = normalizeDisplayPath(resolvePath(fs, path))],
           "setCurrentDirectory", path, TRUE)

\* setCurrentDirectory that assigns the path before it tests the node
setCurrentDirectoryEager(fs, path) ==
    Logged([fs EXCEPT !.currentPath = normalizeDisplayPath(resolvePath(fs, path))],
           "setCurrentDirectory", path,
           /\ getNodeByPath(fs, resolvePath(fs, path)).defined
           /\ getNodeByPath(fs, resolvePath(fs, path)).value.type = "directory")

setCurrentDirectory(fs, path) ==
    LET resolvedPath == resolvePath(fs, path)
        node == getNodeByPath(fs, resolvedPath)
    IN  IF ~node.defined \/ node.value.type # "directory"
        THEN Logged(fs, "setCurrentDirectory", path, FALSE)
        ELSE Logged([fs EXCEPT !.currentPath = normalizeDisplayPath(resolvedPath)],
                    "setCurrentDirectory", path, TRUE)

\* children.set(name, node) on the current directory's node
InsertInCurrent(fs, name, node) ==
    LET currentNode == getCurrentDirectoryNode(fs).value
    IN  [fs EXCEPT !.root =
            ReplaceAt(fs.root, CurrentLocation(fs),
                      WithChildren(currentNode,
                                   EntriesSet(currentNode.children.value, name, node)))]

createFile(fs, name, content) ==
    IF exists(fs, name) THEN Logged(fs, "createFile", name, FALSE)
    ELSE IF ~UsableDirectory(getCurrentDirectoryNode(fs))
    THEN Logged(fs, "createFile", name, FALSE)
    ELSE Logged(InsertInCurrent(fs, name, createNode(name, "file", Some(content))),
                "createFile", name, TRUE)

createDirectory(fs, name) ==
    IF exists(fs, name) THEN Logged(fs, "createDirectory", name, FALSE)
    ELSE IF ~UsableDirectory(getCurrentDirectoryNode(fs))
    THEN Logged(fs, "createDirectory", name, FALSE)
    ELSE Logged(InsertInCurrent(fs, name, createNode(name, "directory", Undefined)),
                "createDirectory", name, TRUE)

\* deleteNode without the test for a directory that is not empty
deleteNodeRegardless(fs, name, recursive) ==
    IF ~UsableDirectory(getCurrentDirectoryNode(fs))
    THEN Logged(fs, "deleteNode", name, FALSE)
    ELSE IF ~EntriesHas(getCurrentDirectoryNode(fs).value.children.value, name)
    THEN Logged(fs, "deleteNode", name, FALSE)
    ELSE Logged([fs EXCEPT !.root =
                    ReplaceAt(fs.root, CurrentLocation(fs),
                              WithChildren(getCurrentDirectoryNode(fs).value,
                                           EntriesDelete(getCurrentDirectoryNode(fs).value.children.value, name)))],
                "deleteNode", name, TRUE)

deleteNode(fs, name, recursive) ==
    LET current == getCurrentDirectoryNode(fs)
        entries == current.value.children.value
        node == EntriesGet(entries, name)
    IN  IF ~UsableDirectory(current) THEN Logged(fs, "deleteNode", name, FALSE)
        ELSE IF ~EntriesHas(entries, name) THEN Logged(fs, "deleteNode", name, FALSE)
        ELSE IF node.type = "directory" /\ node.children.defined
                /\ Len(node.children.value) > 0 /\ ~recursive
        THEN Logged(fs, "deleteNode", name, FALSE)
        ELSE Logged([fs EXCEPT !.root =
                        ReplaceAt(fs.root, CurrentLocation(fs),
                                  WithChildren(current.value, EntriesDelete(entries, name)))],
                    "deleteNode", name, TRUE)

\* writeFile leaving the size of the file it overwrites as it was
writeFileKeepingSize(fs, name, content) ==
    LET at == getNodeLocation(fs, name)
        node == getNode(fs, name)
    IN  IF node.defined /\ node.value.type = "file"
        THEN Logged([fs EXCEPT !.root =
                        ReplaceAt(fs.root, at.value,
                                  [node.value EXCEPT !.content = Some(content)])],
                    "writeFile", name, TRUE)
        ELSE Logged(createFile(fs, name, content).fs, "writeFile", name,
                    createFile(fs, name, content).ret)

writeFile(fs, name, content) ==
    LET at == getNodeLocation(fs, name)
        node == getNode(fs, name)
    IN  IF node.defined /\ node.value.type = "file"
        THEN Logged([fs EXCEPT !.root =
                        ReplaceAt(fs.root, at.value,
                                  [node.value EXCEPT !.content = Some(content),
                                                     !.size = Len(content)])],
                    "writeFile", name, TRUE)
        ELSE Logged(createFile(fs, name, content).fs, "writeFile", name,
                    createFile(fs, name, content).ret)

(***************************************************************************)
(* listDirectory: directories first, then a.name.localeCompare(b.name)     *)
(*                                                                         *)
(* localeCompare is the host's collation.  It is modelled as the root      *)
(* collation: strings are compared by their letters without regard to      *)
(* case, punctuation before digits before letters; strings equal that way  *)
(* are ordered by case, lower case first.                                  *)
(***************************************************************************)

CollationOrder ==
    <<" ", "_", "-", ",", ";", ":", "!", "?", ".", "'", "\"", "(", ")", "[", "]",
      "{", "}", "@", "*", "/", "\\", "&", "#", "%", "^", "+", "<", "=", ">",
      "|", "~", "$", "0", "1", "2", "3", "4", "5", "6", "7", "8", "9">> \o LowerChars

\* The place of each character of CollationOrder
PlaceOf ==
    [c \in { CollationOrder[k] : k \in 1..Len(CollationOrder) } |->
        CHOOSE k \in 1..Len(CollationOrder) : CollationOrder[k] = c]

PrimaryRank(c) ==
    IF LowerChar(c) \in DOMAIN PlaceOf THEN PlaceOf[LowerChar(c)] ELSE 0

CaseRank(c) ==
    IF LowerChar(c) = c THEN 0 ELSE 1

RankOf(c, byCase) ==
    IF byCase THEN CaseRank(c) ELSE PrimaryRank(c)

\* -1, 0 or 1 by the first position where the ranks differ
RECURSIVE compareRanks(_, _, _)
compareRanks(a, b, byCase) ==
    IF a = <<>> /\ b = <<>> THEN 0
    ELSE IF a = <<>> THEN -1
    ELSE IF b = <<>> THEN 1
    ELSE IF RankOf(a[1], byCase) < RankOf(b[1], byCase) THEN -1
    ELSE IF RankOf(a[1], byCase) > RankOf(b[1], byCase) THEN 1
    ELSE compareRanks(Tail(a), Tail(b), byCase)

localeCompare(a, b) ==
    IF compareRanks(a, b, FALSE) # 0
    THEN compareRanks(a, b, FALSE)
    ELSE compareRanks(a, b, TRUE)

\* The comparator without the test of the types
ListedBeforeByName(a, b) ==
    localeCompare(a.name, b.name) < 0

\* the comparator of listDirectory's sort, as "a sorts before b"
ListedBefore(a, b) ==
    IF a.type # b.type THEN a.type = "directory"
    ELSE localeCompare(a.name, b.name) < 0

\* Array.prototype.sort (stable): insertion of each element after the last
\* element that does not sort after it
RECURSIVE insertSorted(_, _)
insertSorted(sorted, node) ==
    IF sorted = <<>> THEN <<node>>
    ELSE IF ListedBefore(node, sorted[1]) THEN <<node>> \o sorted
    ELSE <<sorted[1]>> \o insertSorted(Tail(sorted), node)

RECURSIVE sortNodes(_, _)
sortNodes(entries, sorted) ==
    IF entries = <<>> THEN sorted
    ELSE sortNodes(Tail(entries), insertSorted(sorted, entries[1].node))

\* listDirectory(path?): an absent path and the empty string both mean "no path"
listDirectory(fs, path) ==
    LET targetPath == IF path # <<>> THEN resolvePath(fs, path)
                      ELSE getAbsolutePath(fs.currentPath)
        node == getNodeByPath(fs, targetPath)
    IN  IF ~node.defined \/ node.value.type # "directory" \/ ~node.value.children.defined
        THEN <<>>
        ELSE sortNodes(node.value.children.value, <<>>)


(***************************************************************************)
(* BaseCommand: results                                                    *)
(*                                                                         *)
(* An ICommandResult is [success, output, error, exitCode], output and     *)
(* error being fields that may be undefined.                               *)
(***************************************************************************)

\* BaseCommand.success(output?): output || []
success(output) ==
    [success |-> TRUE, output |-> Some(output), error |-> Undefined, exitCode |-> 0]

\* BaseCommand.error(message, exitCode = 1)
error(message, exitCode) ==
    [success |-> FALSE, output |-> Undefined, error |-> Some(message),
     exitCode |-> exitCode]

\* BaseCommand.validateArgs(args, minArgs) of the command called name, as a
\* value that may be undefined (null: the arguments are valid)
validateArgs(name, usage, args, minArgs) ==
    IF Len(args) < minArgs
    THEN Some(error(name \o <<":", " ", "m", "i", "s", "s", "i", "n", "g", " ", "a", "r", "g", "u", "m", "e", "n", "t", "s", "\n", "U", "s", "a", "g", "e", ":", " ">> \o usage, 1))
    ELSE Undefined

\* BaseCommand.hasFlag
hasFlag(flags, flag) ==
    MapHas(flags, flag) /\ flags[flag] = FlagTrue

\* What a handler leaves: the file system, the environment, the lines it wrote to
\* the terminal itself, and the result it returned (undefined: it returned none).
Outcome(fs, env, shown, result) ==
    [fs |-> fs, environment |-> env, shown |-> shown, result |-> result,
     fault |-> FALSE]

\* A handler that threw, or whose promise was rejected, with message.
Fault(fs, env, message) ==
    [fs |-> fs, environment |-> env, shown |-> <<>>, result |-> Undefined,
     fault |-> TRUE, message |-> message]

Digits == <<"0", "1", "2", "3", "4", "5", "6", "7", "8", "9">>

\* n.toString() for n >= 0
RECURSIVE ToDecimal(_)
ToDecimal(n) ==
    IF n < 10 THEN <<Digits[n + 1]>>
    ELSE ToDecimal(n \div 10) \o <<Digits[(n % 10) + 1]>>

\* s.padStart(width) with spaces
RECURSIVE padStart(_, _)
padStart(s, width) ==
    IF Len(s) >= width THEN s ELSE padStart(<<" ">> \o s, width)

\* The permission string createNode gives a node of this type.
PermissionsOf(type) ==
    IF type = "directory" THEN <<"r", "w", "x", "r", "-", "x", "r", "-", "x">> ELSE <<"r", "w", "-", "r", "-", "-", "r", "-", "-">>

\* The host's rendering of a timestamp (toLocaleDateString, Date.toString):
\* timestamps are not modelled, every rendering is this text.
DateText == <<"<", "d", "a", "t", "e", ">">>

(***************************************************************************)
(* BasicCommands and FileCommands: the handlers                            *)
(***************************************************************************)

EchoCommand(ctx) ==
    Outcome(ctx.fs, ctx.environment, <<>>, Some(success(<<Join(ctx.args, <<" ">>)>>)))

ClearCommand(ctx) ==
    Outcome(ctx.fs, ctx.environment, <<>>, Some(success(<<>>)))

EnvGet(env, key, default) ==
    IF MapHas(env, key) /\ env[key] # <<>> THEN env[key] ELSE default

WhoamiCommand(ctx) ==
    Outcome(ctx.fs, ctx.environment, <<>>,
            Some(success(<<EnvGet(ctx.environment, <<"U", "S", "E", "R">>, <<"u", "s", "e", "r">>)>>)))

HostnameCommand(ctx) ==
    Outcome(ctx.fs, ctx.environment, <<>>,
            Some(success(<<EnvGet(ctx.environment, <<"H", "O", "S", "T", "N", "A", "M", "E">>, <<"l", "o", "c", "a", "l", "h", "o", "s", "t">>)>>)))

DateCommand(ctx) ==
    Outcome(ctx.fs, ctx.environment, <<>>, Some(success(<<DateText>>)))

HistoryCommand(ctx) ==
    Outcome(ctx.fs, ctx.environment, <<>>,
            Some(success(<<<<"C", "o", "m", "m", "a", "n", "d", " ", "h", "i", "s", "t", "o", "r", "y", ":">>,
                           <<"(", "H", "i", "s", "t", "o", "r", "y", " ", "a", "c", "c", "e", "s", "s", " ", "w", "o", "u", "l", "d", " ", "b", "e", " ", "i", "m", "p", "l", "e", "m", "e", "n", "t", "e", "d", " ", "t", "h", "r", "o", "u", "g", "h", " ", "d", "e", "p", "e", "n", "d", "e", "n", "c", "y", " ", "i", "n", "j", "e", "c", "t", "i", "o", "n", ")">>>>)))

\* The listing of all commands is a fixed text; its first line stands for it.
HelpCommand(ctx) ==
    Outcome(ctx.fs, ctx.environment, <<>>,
            Some(success(IF Len(ctx.args) = 0
                         THEN <<<<"A", "v", "a", "i", "l", "a", "b", "l", "e", " ", "c", "o", "m", "m", "a", "n", "d", "s", ":">>, <<>>>>
                         ELSE <<<<"H", "e", "l", "p", " ", "f", "o", "r", " ", "\"">> \o ctx.args[1]
                                    \o <<"\"", " ", "c", "o", "m", "m", "a", "n", "d", " ", "w", "o", "u", "l", "d", " ", "b", "e", " ", "s", "h", "o", "w", "n", " ", "h", "e", "r", "e">>>>)))

PwdCommand(ctx) ==
    Outcome(ctx.fs, ctx.environment, <<>>,
            Some(success(<<getAbsolutePath(ctx.fs.currentPath)>>)))

\* One line of ls for a node
LsName(file) ==
    IF file.type = "directory" THEN file.name \o <<"/">> ELSE file.name

LsLongLine(file) ==
    (IF file.type = "directory" THEN <<"d">> ELSE <<"-">>)
        \o PermissionsOf(file.type) \o <<" ">> \o padStart(ToDecimal(file.size), 8)
        \o <<" ">> \o DateText \o <<" ">> \o LsName(file)

RECURSIVE LsLines(_, _, _)
LsLines(files, showAll, longFormat) ==
    IF files = <<>> THEN <<>>
    ELSE IF ~showAll /\ StartsWith(files[1].name, <<".">>)
    THEN LsLines(Tail(files), showAll, longFormat)
    ELSE <<IF longFormat THEN LsLongLine(files[1]) ELSE LsName(files[1])>>
             \o LsLines(Tail(files), showAll, longFormat)

LsCommand(ctx) ==
    LET showAll == hasFlag(ctx.flags, <<"a">>) \/ hasFlag(ctx.flags, <<"a", "l", "l">>)
        longFormat == hasFlag(ctx.flags, <<"l">>) \/ hasFlag(ctx.flags, <<"l", "o", "n", "g">>)
        targetPath == IF Len(ctx.args) > 0 THEN ctx.args[1] ELSE <<>>
        files == listDirectory(ctx.fs, targetPath)
        output == LsLines(files, showAll, longFormat)
    IN  Outcome(ctx.fs, ctx.environment, <<>>,
                Some(IF Len(files) = 0 THEN success(<<>>)
                     ELSE IF ~longFormat THEN success(<<Join(output, <<" ", " ">>)>>)
                     ELSE success(output)))

CdCommand(ctx) ==
    LET targetPath == IF Len(ctx.args) > 0 THEN ctx.args[1] ELSE <<"~">>
        done == setCurrentDirectory(ctx.fs, targetPath)
    IN  Outcome(done.fs, ctx.environment, <<>>,
                Some(IF ~done.ret
                     THEN error(<<"c", "d", ":", " ">> \o targetPath \o <<":", " ", "N", "o", " ", "s", "u", "c", "h", " ", "f", "i", "l", "e", " ", "o", "r", " ", "d", "i", "r", "e", "c", "t", "o", "r", "y">>, 1)
                     ELSE success(<<>>)))

\* The loop of mkdir over its operands: [fs, errors]
RECURSIVE mkdirLoop(_, _, _)
mkdirLoop(fs, args, errors) ==
    IF args = <<>> THEN [fs |-> fs, errors |-> errors]
    ELSE LET done == createDirectory(fs, args[1])
         IN  mkdirLoop(done.fs, Tail(args),
                       IF done.ret THEN errors
                       ELSE Append(errors, <<"m", "k", "d", "i", "r", ":", " ", "c", "a", "n", "n", "o", "t", " ", "c", "r", "e", "a", "t", "e", " ", "d", "i", "r", "e", "c", "t", "o", "r", "y", " ", "'">> \o args[1]
                                               \o <<"'", ":", " ", "F", "i", "l", "e", " ", "e", "x", "i", "s", "t", "s", " ", "o", "r", " ", "i", "n", "v", "a", "l", "i", "d", " ", "n", "a", "m", "e">>))

MkdirCommand(ctx) ==
    LET validation == validateArgs(<<"m", "k", "d", "i", "r">>, <<"m", "k", "d", "i", "r", " ", "[", "o", "p", "t", "i", "o", "n", "s", "]", " ", "d", "i", "r", "e", "c", "t", "o", "r", "y", ".", ".", ".">>, ctx.args, 1)
        done == mkdirLoop(ctx.fs, ctx.args, <<>>)
    IN  IF validation.defined
        THEN Outcome(ctx.fs, ctx.environment, <<>>, validation)
        ELSE Outcome(done.fs, ctx.environment, <<>>,
                     Some(IF Len(done.errors) > 0 THEN error(Join(done.errors, <<"\n">>), 1)
                          ELSE success(<<>>)))

\* The loop of touch over its operands (an existing node only gets a new
\* modification time, which is not modelled)
RECURSIVE touchLoop(_, _, _)
touchLoop(fs, args, errors) ==
    IF args = <<>> THEN [fs |-> fs, errors |-> errors]
    ELSE IF exists(fs, args[1]) THEN touchLoop(fs, Tail(args), errors)
    ELSE LET done == createFile(fs, args[1], <<>>)
         IN  touchLoop(done.fs, Tail(args),
                       IF done.ret THEN errors
                       ELSE Append(errors, <<"t", "o", "u", "c", "h", ":", " ", "c", "a", "n", "n", "o", "t", " ", "t", "o", "u", "c", "h", " ", "'">> \o args[1]
                                               \o <<"'", ":", " ", "I", "n", "v", "a", "l", "i", "d", " ", "f", "i", "l", "e", " ", "n", "a", "m", "e">>))

TouchCommand(ctx) ==
    LET validation == validateArgs(<<"t", "o", "u", "c", "h">>, <<"t", "o", "u", "c", "h", " ", "f", "i", "l", "e", ".", ".", ".">>, ctx.args, 1)
        done == touchLoop(ctx.fs, ctx.args, <<>>)
    IN  IF validation.defined
        THEN Outcome(ctx.fs, ctx.environment, <<>>, validation)
        ELSE Outcome(done.fs, ctx.environment, <<>>,
                     Some(IF Len(done.errors) > 0 THEN error(Join(done.errors, <<"\n">>), 1)
                          ELSE success(<<>>)))

\* The loop of cat over its operands: the result
RECURSIVE catLoop(_, _, _)
catLoop(fs, args, output) ==
    IF args = <<>> THEN success(output)
    ELSE LET content == readFile(fs, args[1])
         IN  IF ~content.defined
             THEN error(<<"c", "a", "t", ":", " ">> \o args[1] \o <<":", " ", "N", "o", " ", "s", "u", "c", "h", " ", "f", "i", "l", "e", " ", "o", "r", " ", "d", "i", "r", "e", "c", "t", "o", "r", "y">>, 1)
             ELSE catLoop(fs, Tail(args),
                          IF content.value # <<>> THEN output \o Split(content.value, "\n")
                          ELSE output)

CatCommand(ctx) ==
    LET validation == validateArgs(<<"c", "a", "t">>, <<"c", "a", "t", " ", "f", "i", "l", "e", ".", ".", ".">>, ctx.args, 1)
    IN  IF validation.defined
        THEN Outcome(ctx.fs, ctx.environment, <<>>, validation)
        ELSE Outcome(ctx.fs, ctx.environment, <<>>, Some(catLoop(ctx.fs, ctx.args, <<>>)))

\* The loop of rm over its operands: [fs, errors]
RECURSIVE rmLoop(_, _, _, _, _)
rmLoop(fs, args, recursive, force, errors) ==
    IF args = <<>> THEN [fs |-> fs, errors |-> errors]
    ELSE IF ~exists(fs, args[1]) /\ ~force
    THEN rmLoop(fs, Tail(args), recursive, force,
                Append(errors, <<"r", "m", ":", " ", "c", "a", "n", "n", "o", "t", " ", "r", "e", "m", "o", "v", "e", " ", "'">> \o args[1]
                                   \o <<"'", ":", " ", "N", "o", " ", "s", "u", "c", "h", " ", "f", "i", "l", "e", " ", "o", "r", " ", "d", "i", "r", "e", "c", "t", "o", "r", "y">>))
    ELSE LET done == deleteNode(fs, args[1], recursive)
         IN  rmLoop(done.fs, Tail(args), recursive, force,
                    IF ~done.ret /\ ~force
                    THEN Append(errors, <<"r", "m", ":", " ", "c", "a", "n", "n", "o", "t", " ", "r", "e", "m", "o", "v", "e", " ", "'">> \o args[1]
                            \o <<"'", ":", " ", "D", "i", "r", "e", "c", "t", "o", "r", "y", " ", "n", "o", "t", " ", "e", "m", "p", "t", "y", " ", "(", "u", "s", "e", " ", "-", "r", " ", "t", "o", " ", "r", "e", "m", "o", "v", "e", " ", "d", "i", "r", "e", "c", "t", "o", "r", "i", "e", "s", ")">>)
                    ELSE errors)

RmCommand(ctx) ==
    LET validation == validateArgs(<<"r", "m">>, <<"r", "m", " ", "[", "o", "p", "t", "i", "o", "n", "s", "]", " ", "f", "i", "l", "e", ".", ".", ".">>, ctx.args, 1)
        recursive == hasFlag(ctx.flags, <<"r">>) \/ hasFlag(ctx.flags, <<"R">>)
                         \/ hasFlag(ctx.flags, <<"r", "e", "c", "u", "r", "s", "i", "v", "e">>)
        force == hasFlag(ctx.flags, <<"f">>) \/ hasFlag(ctx.flags, <<"f", "o", "r", "c", "e">>)
        done == rmLoop(ctx.fs, ctx.args, recursive, force, <<>>)
    IN  IF validation.defined
        THEN Outcome(ctx.fs, ctx.environment, <<>>, validation)
        ELSE Outcome(done.fs, ctx.environment, <<>>,
                     Some(IF Len(done.errors) > 0 THEN error(Join(done.errors, <<"\n">>), 1)
                          ELSE success(<<>>)))


(***************************************************************************)
(* BashInterpreter                                                         *)
(*                                                                         *)
(* The interpreter's state is [fs, environment, shown]: the file system    *)
(* and the environment it shares with the terminal, and the lines it has   *)
(* written to the terminal.                                                *)
(***************************************************************************)

\* BashInterpreter.parseCommand: one iteration of the scanner's loop
parseCommandChar(st, char) ==
    IF (char = "\"" \/ char = "'") /\ ~st.inQuotes
    THEN [st EXCEPT !.inQuotes = TRUE, !.quoteChar = char]
    ELSE IF char = st.quoteChar /\ st.inQuotes
    THEN [st EXCEPT !.inQuotes = FALSE, !.quoteChar = ""]
    ELSE IF char = " " /\ ~st.inQuotes
    THEN (IF st.current # <<>>
          THEN [st EXCEPT !.parts = Append(@, st.current), !.current = <<>>]
          ELSE st)
    ELSE [st EXCEPT !.current = Append(@, char)]

RECURSIVE parseCommandFrom(_, _, _)
parseCommandFrom(line, k, st) ==
    IF k > Len(line)
    THEN (IF st.current # <<>> THEN Append(st.parts, st.current) ELSE st.parts)
    ELSE parseCommandFrom(line, k + 1, parseCommandChar(st, line[k]))

parseCommand(line) ==
    parseCommandFrom(line, 1,
                     [parts |-> <<>>, current |-> <<>>, inQuotes |-> FALSE, quoteChar |-> ""])

\* \w of a regular expression
IsWordChar(c) ==
    \/ \E k \in 1..Len(LowerChars) : LowerChars[k] = c
    \/ \E k \in 1..Len(UpperChars) : UpperChars[k] = c
    \/ \E k \in 1..Len(Digits) : Digits[k] = c
    \/ c = "_"

\* The length of the longest run of word characters of s from 1-based k on
RECURSIVE wordRun(_, _)
wordRun(s, k) ==
    IF k <= Len(s) /\ IsWordChar(s[k]) THEN 1 + wordRun(s, k + 1) ELSE 0

\* text.replace(/\$(\w+)/g, (_, varName) => environment.get(varName) || '')
RECURSIVE substituteFrom(_, _, _)
substituteFrom(s, k, env) ==
    IF k > Len(s) THEN <<>>
    ELSE IF s[k] = "$" /\ wordRun(s, k + 1) > 0
    THEN EnvGet(env, SubSeq(s, k + 1, k + wordRun(s, k + 1)), <<>>)
             \o substituteFrom(s, k + 1 + wordRun(s, k + 1), env)
    ELSE <<s[k]>> \o substituteFrom(s, k + 1, env)

Shown(st, text) ==
    [st EXCEPT !.shown = Append(@, text)]

executeEcho(st, args) ==
    [st |-> Shown(st, substituteFrom(Join(args, <<" ">>), 1, st.environment)), ret |-> TRUE]

\* arg.split('=', 2) and the assignment when both pieces are non-empty
exportOne(env, arg) ==
    LET pieces == Split(arg, "=")
    IN  IF Len(pieces) >= 2 /\ pieces[1] # <<>> /\ pieces[2] # <<>>
        THEN MapSet(env, pieces[1], pieces[2])
        ELSE env

RECURSIVE exportAll(_, _)
exportAll(env, args) ==
    IF args = <<>> THEN env ELSE exportAll(exportOne(env, args[1]), Tail(args))

executeExport(st, args) ==
    [st |-> [st EXCEPT !.environment = exportAll(@, args)], ret |-> TRUE]

executeCd(st, args) ==
    LET done == setCurrentDirectory(st.fs, IF Len(args) > 0 THEN args[1] ELSE <<"~">>)
    IN  [st |-> [st EXCEPT !.fs = done.fs], ret |-> done.ret]

\* One line of the interpreter's ls; "ESC" stands for the escape character
ScriptLsLine(file) ==
    (IF file.type = "directory" THEN <<"d">> ELSE <<"-">>)
        \o PermissionsOf(file.type) \o <<" ">> \o padStart(ToDecimal(file.size), 8)
        \o <<" ">>
        \o (IF file.type = "directory"
            THEN <<"ESC", "[", "3", "4", "m">> \o file.name \o <<"ESC", "[", "0", "m">>
            ELSE file.name)

RECURSIVE showFiles(_, _)
showFiles(st, files) ==
    IF files = <<>> THEN st
    ELSE showFiles(Shown(st, ScriptLsLine(files[1])), Tail(files))

executeLs(st, args) ==
    [st |-> showFiles(st, listDirectory(st.fs, <<>>)), ret |-> TRUE]

executeScriptLine(st, line) ==
    LET parts == parseCommand(line)
        command == parts[1]
        args == Tail(parts)
    IN  IF Len(parts) = 0 THEN [st |-> st, ret |-> TRUE]
        ELSE IF command = <<"e", "c", "h", "o">> THEN executeEcho(st, args)
        ELSE IF command = <<"e", "x", "p", "o", "r", "t">> THEN executeExport(st, args)
        ELSE IF command = <<"c", "d">> THEN executeCd(st, args)
        ELSE IF command = <<"l", "s">> THEN executeLs(st, args)
        ELSE [st |-> Shown(st, <<"b", "a", "s", "h", ":", " ">> \o command \o <<":", " ", "c", "o", "m", "m", "a", "n", "d", " ", "n", "o", "t", " ", "f", "o", "u", "n", "d">>),
              ret |-> FALSE]

\* content.split('\n').filter(line => line.trim())
RECURSIVE FilterNonBlank(_)
FilterNonBlank(lines) ==
    IF lines = <<>> THEN <<>>
    ELSE IF Trim(lines[1]) = <<>> THEN FilterNonBlank(Tail(lines))
    ELSE <<lines[1]>> \o FilterNonBlank(Tail(lines))

\* The shebang test on the first non-blank line: may the script run?
ShebangAccepted(lines) ==
    StartsWith(lines[1], <<"#", "!">>)
        => LET shebang == Trim(Slice(lines[1], 2))
           IN  Includes(shebang, <<"b", "a", "s", "h">>) \/ Includes(shebang, <<"s", "h">>)

\* executeScript up to its loop: [st, lines, ret], ret being what it returns
\* when it returns before the loop ("run": it enters the loop over lines).
\* scriptLines is the part after the split, scriptContent the part after the read.
scriptLines(st, scriptPath, lines) ==
        IF Len(lines) = 0 THEN [st |-> st, lines |-> <<>>, ret |-> "true"]
        ELSE IF ~ShebangAccepted(lines)
        THEN [st |-> Shown(st, <<"b", "a", "s", "h", ":", " ">> \o scriptPath \o <<":", " ", "c", "a", "n", "n", "o", "t", " ", "e", "x", "e", "c", "u", "t", "e", " ", "b", "i", "n", "a", "r", "y", " ", "f", "i", "l", "e">>),
              lines |-> <<>>, ret |-> "false"]
        ELSE [st |-> st, lines |-> lines, ret |-> "run"]

scriptContent(st, scriptPath, content) ==
        IF ~Truthy(content)
        THEN [st |-> Shown(st, <<"b", "a", "s", "h", ":", " ">> \o scriptPath \o <<":", " ", "N", "o", " ", "s", "u", "c", "h", " ", "f", "i", "l", "e", " ", "o", "r", " ", "d", "i", "r", "e", "c", "t", "o", "r", "y">>),
              lines |-> <<>>, ret |-> "false"]
        ELSE scriptLines(st, scriptPath, FilterNonBlank(Split(content.value, "\n")))

scriptStart(st, scriptPath) ==
    scriptContent(st, scriptPath, readFile(st.fs, scriptPath))

\* One iteration of executeScript's loop, on lines[i]: [st, ret], ret FALSE when
\* the line failed and the run stops.
scriptStep(st, rawLine) ==
    LET line == Trim(rawLine)
    IN  IF line = <<>> \/ StartsWith(line, <<"#">>) THEN [st |-> st, ret |-> TRUE]
        ELSE executeScriptLine(st, line)

RECURSIVE scriptLoop(_, _)
RECURSIVE scriptNext(_, _)
scriptLoop(st, lines) ==
    IF lines = <<>> THEN [st |-> st, ret |-> TRUE]
    ELSE scriptNext(scriptStep(st, lines[1]), Tail(lines))

\* The loop going on to the next line whatever the line returned
scriptNextSkipping(done, rest) ==
    scriptLoop(done.st, rest)

\* if (!success) return false, and the next iteration
scriptNext(done, rest) ==
    IF ~done.ret THEN [st |-> done.st, ret |-> FALSE]
    ELSE scriptLoop(done.st, rest)

\* executeScript from its loop on
scriptRun(start) ==
    IF start.ret = "run" THEN scriptLoop(start.st, start.lines)
    ELSE [st |-> start.st, ret |-> start.ret = "true"]

\* BashInterpreter.executeScript, a whole run: [st, ret]
executeScript(st, scriptPath) ==
    scriptRun(scriptStart(st, scriptPath))

(***************************************************************************)
(* BashCommand and ExecuteCommand: the handlers that run a script          *)
(***************************************************************************)

InterpreterOf(ctx) ==
    [fs |-> ctx.fs, environment |-> ctx.environment, shown |-> <<>>]

\* { success, exitCode: success ? 0 : 1 }
ScriptResult(ok) ==
    [success |-> ok, output |-> Undefined, error |-> Undefined,
     exitCode |-> IF ok THEN 0 ELSE 1]

ScriptOutcome(done) ==
    Outcome(done.st.fs, done.st.environment, done.st.shown, Some(ScriptResult(done.ret)))

\* What BashCommand.execute returns before it runs the script, if it does
BashCommandRefusal(ctx) ==
    IF Len(ctx.args) = 0 THEN Some(error(<<"b", "a", "s", "h", ":", " ", "u", "s", "a", "g", "e", ":", " ", "b", "a", "s", "h", " ", "<", "s", "c", "r", "i", "p", "t", ">">>, 1))
    ELSE IF ~exists(ctx.fs, ctx.args[1])
    THEN Some(error(<<"b", "a", "s", "h", ":", " ">> \o ctx.args[1] \o <<":", " ", "N", "o", " ", "s", "u", "c", "h", " ", "f", "i", "l", "e", " ", "o", "r", " ", "d", "i", "r", "e", "c", "t", "o", "r", "y">>, 1))
    ELSE IF getNode(ctx.fs, ctx.args[1]).value.type # "file"
    THEN Some(error(<<"b", "a", "s", "h", ":", " ">> \o ctx.args[1] \o <<":", " ", "i", "s", " ", "a", " ", "d", "i", "r", "e", "c", "t", "o", "r", "y">>, 1))
    ELSE Undefined

\* A script handler: the refusal if there is one, else the run of the script
RefusedOrRun(ctx, refusal, scriptPath) ==
    IF refusal.defined
    THEN Outcome(ctx.fs, ctx.environment, <<>>, refusal)
    ELSE ScriptOutcome(executeScript(InterpreterOf(ctx), scriptPath))

BashCommand(ctx) ==
    RefusedOrRun(ctx, BashCommandRefusal(ctx), ctx.args[1])

\* scriptName.startsWith('./') ? scriptName.slice(2) : scriptName
CleanName(scriptName) ==
    IF StartsWith(scriptName, <<".", "/">>) THEN Slice(scriptName, 2) ELSE scriptName

\* What ExecuteCommand.execute returns before it runs the script, if it does
ExecuteCommandRefusal(ctx) ==
    IF Len(ctx.args) = 0 THEN Some(error(<<"U", "s", "a", "g", "e", ":", " ", ".", "/", "<", "s", "c", "r", "i", "p", "t", ">">>, 1))
    ELSE IF ~exists(ctx.fs, CleanName(ctx.args[1]))
    THEN Some(error(<<"b", "a", "s", "h", ":", " ">> \o CleanName(ctx.args[1])
                        \o <<":", " ", "N", "o", " ", "s", "u", "c", "h", " ", "f", "i", "l", "e", " ", "o", "r", " ", "d", "i", "r", "e", "c", "t", "o", "r", "y">>, 1))
    ELSE Undefined

ExecuteCommand(ctx) ==
    RefusedOrRun(ctx, ExecuteCommandRefusal(ctx), CleanName(ctx.args[1]))


(***************************************************************************)
(* Handlers that break the contract of ICommand.execute: the interface     *)
(* lets any object with an execute method be registered.  These three      *)
(* exercise the dispatcher's recovery boundary.                            *)
(***************************************************************************)

\* execute() { throw new Error('boom') }
ThrowingCommand(ctx) ==
    Fault(ctx.fs, ctx.environment, <<"b", "o", "o", "m">>)

\* execute() { return Promise.reject(new Error('rejected')) }
RejectingCommand(ctx) ==
    Fault(ctx.fs, ctx.environment, <<"r", "e", "j", "e", "c", "t", "e", "d">>)

\* execute() { } : no result object
SilentCommand(ctx) ==
    Outcome(ctx.fs, ctx.environment, <<>>, Undefined)

\* command.execute(fullContext), by the handler's class
Execute(handler, ctx) ==
    CASE handler = "HelpCommand" -> HelpCommand(ctx)
      [] handler = "ClearCommand" -> ClearCommand(ctx)
      [] handler = "EchoCommand" -> EchoCommand(ctx)
      [] handler = "WhoamiCommand" -> WhoamiCommand(ctx)
      [] handler = "HostnameCommand" -> HostnameCommand(ctx)
      [] handler = "DateCommand" -> DateCommand(ctx)
      [] handler = "HistoryCommand" -> HistoryCommand(ctx)
      [] handler = "PwdCommand" -> PwdCommand(ctx)
      [] handler = "LsCommand" -> LsCommand(ctx)
      [] handler = "CdCommand" -> CdCommand(ctx)
      [] handler = "MkdirCommand" -> MkdirCommand(ctx)
      [] handler = "TouchCommand" -> TouchCommand(ctx)
      [] handler = "CatCommand" -> CatCommand(ctx)
      [] handler = "RmCommand" -> RmCommand(ctx)
      [] handler = "BashCommand" -> BashCommand(ctx)
      [] handler = "ExecuteCommand" -> ExecuteCommand(ctx)
      [] handler = "ThrowingCommand" -> ThrowingCommand(ctx)
      [] handler = "RejectingCommand" -> RejectingCommand(ctx)
      [] handler = "SilentCommand" -> SilentCommand(ctx)

(***************************************************************************)
(* CommandProcessor: the registry                                          *)
(*                                                                         *)
(* The registry is reg = [commands, aliases], two maps.  A command is      *)
(* [name, aliases, handler]: its name, its alias strings in order, and the *)
(* class of its execute method.                                            *)
(***************************************************************************)

Command(name, aliasList, handler) ==
    [name |-> name, aliases |-> aliasList, handler |-> handler]

RECURSIVE setAliases(_, _, _)
setAliases(aliasMap, aliasList, name) ==
    IF aliasList = <<>> THEN aliasMap
    ELSE setAliases(MapSet(aliasMap, ToLowerCase(aliasList[1]), ToLowerCase(name)),
                    Tail(aliasList), name)

registerCommand(reg, command) ==
    [commands |-> MapSet(reg.commands, ToLowerCase(command.name), command),
     aliases |-> setAliases(reg.aliases, command.aliases, command.name)]

\* executeCommand's actualCommandName, had it looked among the primary names first
ActualNamePrimaryFirst(reg, name) ==
    IF MapHas(reg.commands, ToLowerCase(name)) THEN ToLowerCase(name)
    ELSE IF MapHas(reg.aliases, ToLowerCase(name)) THEN reg.aliases[ToLowerCase(name)]
    ELSE ToLowerCase(name)

\* this.aliases.get(name.toLowerCase()) || name.toLowerCase()
ActualName(reg, name) ==
    IF MapHas(reg.aliases, ToLowerCase(name)) /\ reg.aliases[ToLowerCase(name)] # <<>>
    THEN reg.aliases[ToLowerCase(name)]
    ELSE ToLowerCase(name)

RECURSIVE registerAll(_, _)
registerAll(reg, list) ==
    IF list = <<>> THEN reg
    ELSE registerAll(registerCommand(reg, list[1]), Tail(list))

\* HTerminal.registerCommands(): the commands the terminal registers at start
StartCommands ==
    <<Command(<<"h", "e", "l", "p">>, <<<<"?">>>>, "HelpCommand"),
      Command(<<"c", "l", "e", "a", "r">>, <<<<"c", "l", "s">>>>, "ClearCommand"),
      Command(<<"e", "c", "h", "o">>, <<>>, "EchoCommand"),
      Command(<<"w", "h", "o", "a", "m", "i">>, <<>>, "WhoamiCommand"),
      Command(<<"h", "o", "s", "t", "n", "a", "m", "e">>, <<>>, "HostnameCommand"),
      Command(<<"d", "a", "t", "e">>, <<>>, "DateCommand"),
      Command(<<"h", "i", "s", "t", "o", "r", "y">>, <<>>, "HistoryCommand"),
      Command(<<"p", "w", "d">>, <<>>, "PwdCommand"),
      Command(<<"l", "s">>, <<<<"d", "i", "r">>>>, "LsCommand"),
      Command(<<"c", "d">>, <<>>, "CdCommand"),
      Command(<<"m", "k", "d", "i", "r">>, <<>>, "MkdirCommand"),
      Command(<<"t", "o", "u", "c", "h">>, <<>>, "TouchCommand"),
      Command(<<"c", "a", "t">>, <<>>, "CatCommand"),
      Command(<<"r", "m">>, <<>>, "RmCommand")>>

\* The script commands of BashCommand.ts and BasicCommands.ts
ScriptCommands ==
    <<Command(<<"b", "a", "s", "h">>, <<>>, "BashCommand"),
      Command(<<".", "/">>, <<>>, "ExecuteCommand")>>

\* Commands that break the contract, under the names boom, reject and silent
FaultyCommands ==
    <<Command(<<"b", "o", "o", "m">>, <<>>, "ThrowingCommand"),
      Command(<<"r", "e", "j", "e", "c", "t">>, <<>>, "RejectingCommand"),
      Command(<<"s", "i", "l", "e", "n", "t">>, <<>>, "SilentCommand")>>

EmptyRegistry == [commands |-> EmptyMap, aliases |-> EmptyMap]

(***************************************************************************)
(* CommandProcessor.executeCommand                                         *)
(*                                                                         *)
(* The dispatch returns a record: the result (undefined when the promise   *)
(* resolves to no result object), the state it leaves, and observations:   *)
(* parsed, the parse of the line; invoked, the class of the handler that   *)
(* ran ("none" when none did); handled, what the handler left.             *)
(***************************************************************************)

\* { success: true, exitCode: 0 }
BareSuccess ==
    [success |-> TRUE, output |-> Undefined, error |-> Undefined, exitCode |-> 0]

\* { success: false, error, exitCode }
Failure(message, exitCode) ==
    [success |-> FALSE, output |-> Undefined, error |-> Some(message),
     exitCode |-> exitCode]

\* writeToFile(fileSystem, filename, content)
writeToFile(fs, filename, content) ==
    writeFile(fs, filename, content)

\* existingContent + (existingContent ? '\n' : '') + content
appended(existingContent, content) ==
    existingContent \o (IF existingContent # <<>> THEN <<"\n">> ELSE <<>>) \o content

\* fileSystem.readFile(filename) || ''
OrEmpty(read) ==
    IF Truthy(read) THEN read.value ELSE <<>>

\* appendToFile(fileSystem, filename, content)
appendToFile(fs, filename, content) ==
    writeFile(fs, filename, appended(OrEmpty(readFile(fs, filename)), content))

\* The test that decides whether the handler's result is redirected
RedirectApplies(parsed, result) ==
    Truthy(parsed.redirectToFile) /\ result.success /\ result.output.defined

\* redirect that reports success whatever the write returned
redirectedIgnoringWrite(parsed, written) ==
    [fs |-> written.fs, result |-> BareSuccess]

\* The redirection of a handler's result, the write having returned: [fs, result]
redirected(parsed, written) ==
        IF written.ret
        THEN [fs |-> written.fs, result |-> BareSuccess]
        ELSE [fs |-> written.fs,
              result |-> Failure(<<"b", "a", "s", "h", ":", " ">> \o parsed.redirectToFile.value
                                     \o <<":", " ", "c", "a", "n", "n", "o", "t", " ", "r", "e", "d", "i", "r", "e", "c", "t", " ", "o", "u", "t", "p", "u", "t">>, 1)]

\* The write of the redirection: [fs, ret]
redirectWrite(fs, parsed, content) ==
    IF parsed.redirectMode = "append"
    THEN appendToFile(fs, parsed.redirectToFile.value, content)
    ELSE writeToFile(fs, parsed.redirectToFile.value, content)

redirect(fs, parsed, result) ==
    redirected(parsed, redirectWrite(fs, parsed, Join(result.output.value, <<"\n">>)))


\* What the evaluation of "redirectToFile && result.success && ..." throws on a
\* result that is undefined
NoResultMessage == <<"C", "a", "n", "n", "o", "t", " ", "r", "e", "a", "d", " ", "p", "r", "o", "p", "e", "r", "t", "i", "e", "s", " ", "o", "f", " ", "u", "n", "d", "e", "f", "i", "n", "e", "d", " ", "(", "r", "e", "a", "d", "i", "n", "g", " ", "'", "s", "u", "c", "c", "e", "s", "s", "'", ")">>

\* return { success: true, exitCode: 0 } or the failure, as the dispatch's result
Redirected(done) ==
    [fs |-> done.fs, result |-> Some(done.result)]

\* The try block of executeCommand, the handler having left handled
afterHandler(parsed, handled) ==
    IF handled.fault
    THEN [fs |-> handled.fs, result |-> Some(Failure(handled.message, 1))]
    ELSE IF ~handled.result.defined
    THEN (IF Truthy(parsed.redirectToFile)
          THEN [fs |-> handled.fs, result |-> Some(Failure(NoResultMessage, 1))]
          ELSE [fs |-> handled.fs, result |-> Undefined])
    ELSE IF RedirectApplies(parsed, handled.result.value)
    THEN Redirected(redirect(handled.fs, parsed, handled.result.value))
    ELSE [fs |-> handled.fs, result |-> handled.result]

Dispatched(fs, env, shown, result, parsed, invoked, handled) ==
    [fs |-> fs, environment |-> env, shown |-> shown, result |-> result,
     parsed |-> parsed, invoked |-> invoked, handled |-> handled]

\* notFound with the generic exit code
notFoundGeneric(commandName) ==
    Failure(<<"b", "a", "s", "h", ":", " ">> \o commandName \o <<":", " ", "c", "o", "m", "m", "a", "n", "d", " ", "n", "o", "t", " ", "f", "o", "u", "n", "d">>, 1)

\* The result of a line whose command is not registered
notFound(commandName) ==
    Failure(<<"b", "a", "s", "h", ":", " ">> \o commandName \o <<":", " ", "c", "o", "m", "m", "a", "n", "d", " ", "n", "o", "t", " ", "f", "o", "u", "n", "d">>, 127)


\* executeCommand once the handler has left handled and the try block after
settle(parsed, handler, handled, after) ==
    Dispatched(after.fs, handled.environment, handled.shown, after.result,
               Some(parsed), handler, Some(handled))

\* executeCommand from the call of the handler on
invoke(parsed, handler, handled) ==
    settle(parsed, handler, handled, afterHandler(parsed, handled))

\* executeCommand from the lookup of the command on
lookUp(reg, fs, env, parsed, actualCommandName) ==
    IF ~MapHas(reg.commands, actualCommandName)
    THEN Dispatched(fs, env, <<>>, Some(notFound(parsed.command)),
                    Some(parsed), "none", Undefined)
    ELSE invoke(parsed, reg.commands[actualCommandName].handler,
                Execute(reg.commands[actualCommandName].handler,
                        [args |-> parsed.args, flags |-> parsed.flags,
                         fs |-> fs, environment |-> env]))

\* executeCommand from the parse of the line on
dispatchParsed(reg, fs, env, parsed) ==
    lookUp(reg, fs, env, parsed, ActualName(reg, parsed.command))

\* executeCommand without its test of the trimmed input
executeCommandUnguarded(reg, fs, env, input) ==
    dispatchParsed(reg, fs, env, parseInput(input))

executeCommand(reg, fs, env, input) ==
    IF Trim(input) = <<>>
    THEN Dispatched(fs, env, <<>>, Some(BareSuccess), Undefined, "none", Undefined)
    ELSE dispatchParsed(reg, fs, env, parseInput(input))


(***************************************************************************)
(* The state after construction                                            *)
(***************************************************************************)

\* HTerminal's constructor: the environment variables
StartEnvironment ==
    LET user == MapSet(EmptyMap, <<"U", "S", "E", "R">>, <<"u", "s", "e", "r">>)
        host == MapSet(user, <<"H", "O", "S", "T", "N", "A", "M", "E">>, <<"l", "o", "c", "a", "l", "h", "o", "s", "t">>)
        home == MapSet(host, <<"H", "O", "M", "E">>, HomeDirectory)
        pwd == MapSet(home, <<"P", "W", "D">>, HomeDirectory)
        shell == MapSet(pwd, <<"S", "H", "E", "L", "L">>, <<"/", "b", "i", "n", "/", "b", "a", "s", "h">>)
    IN  MapSet(shell, <<"T", "E", "R", "M">>, <<"x", "t", "e", "r", "m", "-", "2", "5", "6", "c", "o", "l", "o", "r">>)

\* The registry once the terminal has registered its commands
StartRegistry ==
    registerAll(EmptyRegistry, StartCommands)

\* VirtualFileSystem's constructor, nothing being stored yet
StartFileSystem ==
    [root |-> InitialRoot, currentPath |-> <<"~">>, log |-> <<>>]

\* TerminalHistory's constructor, nothing being stored yet
StartHistory ==
    [history |-> <<>>, currentIndex |-> -1]

\* The event loop before any event: no key event waits, nothing is suspended
StartLoop ==
    [tasks |-> <<>>, jobs |-> <<>>, active |-> {}, submitted |-> 0]

Constructed ==
    /\ root = StartFileSystem.root
    /\ currentPath = StartFileSystem.currentPath
    /\ commands = StartRegistry.commands
    /\ aliases = StartRegistry.aliases
    /\ environment = StartEnvironment
    /\ history = StartHistory
    /\ loop = StartLoop

(***************************************************************************)
(* The parser on its own: tokenize and parseInput applied to a line        *)
(***************************************************************************)

\* The longest line, in tokens after the command name
MaxTokens == 3

ParseCommandWords == { <<"l", "s">>, <<"e", "c", "h", "o">> }

ParseWords ==
    { <<"-", "l", "a">>, <<"-", "l">>, <<"/", "t", "m", "p">>, <<">">>, <<">", ">">>, <<"o", "u", "t", ".", "t", "x", "t">>, <<"h", "i">>, <<"-", "-", "a", "l", "l">> }

\* The lines made of a command name and up to MaxTokens words, single-spaced
ParseLines ==
    {Join(<<c>> \o w, <<" ">>) :
        c \in ParseCommandWords, w \in UNION {[1..n -> ParseWords] : n \in 0..MaxTokens}}

InitParse ==
    /\ Constructed
    /\ last \in {[op |-> "input", input |-> line] : line \in ParseLines}

TokenizeLine ==
    /\ last.op = "input"
    /\ last' = [op |-> "tokenize", input |-> last.input, tokens |-> tokenize(last.input)]
    /\ UNCHANGED <<root, currentPath, commands, aliases, environment, history, loop>>

ParseLine ==
    /\ last.op = "input"
    /\ last' = [op |-> "parseInput", input |-> last.input,
                parsed |-> parseInput(last.input)]
    /\ UNCHANGED <<root, currentPath, commands, aliases, environment, history, loop>>

NextParse ==
    TokenizeLine \/ ParseLine

SpecParse ==
    InitParse /\ [][NextParse]_vars

FlagsOf(names) ==
    [n \in names |-> FlagTrue]

\* C1: parseInput("ls -la /tmp") returns command ls, exactly the flags
\* {l: true, a: true}, and args ["/tmp"]: the path after the short-flag group is
\* a positional argument, not the value of the group's last flag.
C1_LsLaTmp ==
    (last.op = "parseInput" /\ last.input = <<"l", "s", " ", "-", "l", "a", " ", "/", "t", "m", "p">>)
        => /\ last.parsed.command = <<"l", "s">>
           /\ last.parsed.flags = FlagsOf({ <<"l">>, <<"a">> })
           /\ last.parsed.args = <<<<"/", "t", "m", "p">>>>

\* C2: a > token that directly follows a flag token is the redirection
\* operator, not the flag's value: parseInput("ls -l > out.txt") yields the flag
\* l = true, the redirect target out.txt in write mode, and no positional args.
C2_FlagThenRedirect ==
    (last.op = "parseInput" /\ last.input = <<"l", "s", " ", "-", "l", " ", ">", " ", "o", "u", "t", ".", "t", "x", "t">>)
        => /\ last.parsed.flags = FlagsOf({ <<"l">> })
           /\ last.parsed.redirectToFile = Some(<<"o", "u", "t", ".", "t", "x", "t">>)
           /\ last.parsed.redirectMode = "write"
           /\ last.parsed.args = <<>>


(***************************************************************************)
(* The dispatcher: executeCommand on the lines of DispatchLines            *)
(***************************************************************************)

\* The number of nodes of the tree under node, node included
RECURSIVE NodeCount(_)
RECURSIVE EntriesCount(_)
NodeCount(node) ==
    1 + (IF node.children.defined THEN EntriesCount(node.children.value) ELSE 0)

EntriesCount(entries) ==
    IF entries = <<>> THEN 0
    ELSE NodeCount(entries[1].node) + EntriesCount(Tail(entries))

\* The largest size of a file under node that does not hold the content of one
\* of the initial files
RECURSIVE LargestSize(_)
RECURSIVE LargestEntry(_)
LargestSize(node) ==
    IF node.children.defined THEN LargestEntry(node.children.value)
    ELSE IF node.content \in {Some(ReadmeContent), Some(ScriptContent)} THEN 0
    ELSE node.size

LargestEntry(entries) ==
    IF entries = <<>> THEN 0
    ELSE LET first == LargestSize(entries[1].node)
             rest == LargestEntry(Tail(entries))
         IN  IF first > rest THEN first ELSE rest

\* The tree may grow by this many nodes
MaxNewNodes == 2

\* A file written by a command line holds at most this many characters
MaxWritten == 6

WithinBounds(tree) ==
    /\ NodeCount(tree) <= NodeCount(InitialRoot) + MaxNewNodes
    /\ LargestSize(tree) <= MaxWritten

\* The file system the terminal holds
TerminalFS ==
    [root |-> root, currentPath |-> currentPath, log |-> <<>>]

DispatchLines ==
    { <<"e", "c", "h", "o", " ", "h", "i", " ", ">", " ", "o", "u", "t", ".", "t", "x", "t">>, <<"e", "c", "h", "o", " ", "h", "i", " ", ">", ">", " ", "o", "u", "t", ".", "t", "x", "t">>, <<"e", "c", "h", "o", " ", "-", "n", " ", ">", " ", "o", "u", "t", ".", "t", "x", "t">>,
      <<"c", "d", " ", "~", " ", ">", " ", "f">>, <<"c", "d", " ", "D", "o", "c", "u", "m", "e", "n", "t", "s", " ", ">", " ", "f">>, <<"m", "k", "d", "i", "r", " ", "d", " ", ">", " ", "f">>, <<"m", "k", "d", "i", "r", " ", "d">>, <<"c", "a", "t", " ", "n", "o", "f", "i", "l", "e", " ", ">", " ", "f">>,
      <<"e", "c", "h", "o", " ", "h", "i", " ", ">", " ", "D", "o", "c", "u", "m", "e", "n", "t", "s">>, <<"e", "c", "h", "o", " ", "h", "i", " ", ">", ">", " ", "D", "o", "c", "u", "m", "e", "n", "t", "s">>,
      <<"f", "o", "o">>, <<"F", "O", "O", " ", "b", "a", "r", " ", ">", " ", "f">>, <<"D", "i", "r">>, <<"L", "S", " ", "-", "l">>, <<"c", "l", "s">>,
      <<"b", "o", "o", "m">>, <<"b", "o", "o", "m", " ", ">", " ", "f">>, <<"r", "e", "j", "e", "c", "t">>, <<"r", "e", "j", "e", "c", "t", " ", ">", ">", " ", "f">>, <<"s", "i", "l", "e", "n", "t">>, <<"s", "i", "l", "e", "n", "t", " ", ">", " ", "f">>,
      <<"p", "w", "d", " ", ">", " ", "f">>, <<"c", "a", "t", " ", "f">>, <<"r", "m", " ", "f">>, <<"r", "m", " ", "-", "r", "f", " ", "D", "o", "c", "u", "m", "e", "n", "t", "s">>, <<"c", "d", " ", "D", "o", "c", "u", "m", "e", "n", "t", "s">>,
      <<"b", "a", "s", "h", " ", "s", "c", "r", "i", "p", "t", ".", "s", "h">>, <<".", "/", "s", "c", "r", "i", "p", "t", ".", "s", "h">>, <<" ", " ", " ">> }

\* The terminal as constructed, the script commands and the commands that break
\* the contract registered after the terminal's own
InitDispatch ==
    /\ root = StartFileSystem.root
    /\ currentPath = StartFileSystem.currentPath
    /\ commands = registerAll(StartRegistry, ScriptCommands \o FaultyCommands).commands
    /\ aliases = registerAll(StartRegistry, ScriptCommands \o FaultyCommands).aliases
    /\ environment = StartEnvironment
    /\ history = StartHistory
    /\ loop = StartLoop
    /\ last = [op |-> "start"]

\* What a handler returned: its result, or that it threw
HandlerResult(handled) ==
    IF ~handled.defined THEN [kind |-> "none"]
    ELSE IF handled.value.fault THEN [kind |-> "fault"]
    ELSE IF ~handled.value.result.defined THEN [kind |-> "undefined"]
    ELSE [kind |-> "result", result |-> handled.value.result.value]

\* CommandProcessor.executeCommand(input, context), context being the terminal's
\* file system and environment
Dispatch(input) ==
    \E done \in { executeCommand([commands |-> commands, aliases |-> aliases],
                                 [root |-> root, currentPath |-> currentPath, log |-> <<>>],
                                 environment, input) } :
        /\ WithinBounds(done.fs.root)
        /\ root' = done.fs.root
        /\ currentPath' = done.fs.currentPath
        /\ environment' = done.environment
        /\ last' = [op |-> "executeCommand", input |-> input, result |-> done.result,
                    parsed |-> done.parsed, invoked |-> done.invoked,
                    handler |-> HandlerResult(done.handled),
                    handlerRoot |-> IF done.handled.defined THEN done.handled.value.fs.root
                                    ELSE root,
                    log |-> done.fs.log, shown |-> done.shown]
        /\ UNCHANGED <<commands, aliases, history, loop>>

Next ==
    \E input \in DispatchLines : Dispatch(input)

Spec ==
    InitDispatch /\ [][Next]_vars


(***************************************************************************)
(* Claims about the dispatcher                                             *)
(***************************************************************************)

\* The file system as the handler of the last dispatch left it, seen from the
\* current directory
HandlerFS ==
    [root |-> last.handlerRoot, currentPath |-> currentPath, log |-> <<>>]

\* The line ends in "> f": its last token but one is ">"
EndsInWrite(input) ==
    Len(tokenize(input)) >= 3 /\ tokenize(input)[Len(tokenize(input)) - 1] = <<">">>

LastToken(input) ==
    tokenize(input)[Len(tokenize(input))]

\* The handler of the last dispatch returned a successful result with at least
\* one output line
SucceededWithLines ==
    /\ last.handler.kind = "result"
    /\ last.handler.result.success
    /\ last.handler.result.output.defined
    /\ last.handler.result.output.value # <<>>

IsDirectoryIn(fs, name) ==
    getNode(fs, name).defined /\ getNode(fs, name).value.type = "directory"

\* C3: after the dispatch of a line ending in "> f", f a bare name that is not
\* a directory of the current directory, whose command succeeded with a
\* non-empty list of output lines L: readFile(f) is L joined with newlines, and
\* the result is successful with exit code 0 and carries no output lines.
C3_WriteRedirect ==
    (/\ last.op = "executeCommand"
     /\ EndsInWrite(last.input)
     /\ ~Includes(LastToken(last.input), <<"/">>)
     /\ SucceededWithLines
     /\ ~IsDirectoryIn(HandlerFS, LastToken(last.input)))
        => /\ readFile(TerminalFS, LastToken(last.input))
                = Some(Join(last.handler.result.output.value, <<"\n">>))
           /\ last.result = Some(BareSuccess)

\* C4: when a redirect target was parsed and the handler failed, or succeeded
\* with no output lines, the redirection leaves the tree as the handler left it
\* and the dispatch returns the handler's own result.
C4_NoWriteWithoutOutput ==
    (/\ last.op = "executeCommand"
     /\ last.parsed.defined
     /\ last.parsed.value.redirectToFile.defined
     /\ last.handler.kind = "result"
     /\ ~SucceededWithLines)
        => /\ root = last.handlerRoot
           /\ last.result = Some(last.handler.result)

\* The redirection of the last dispatch called writeFile and it returned false
WriteRefused ==
    /\ last.op = "executeCommand"
    /\ \E i \in DOMAIN last.log :
          last.log[i].call = "writeFile" /\ ~last.log[i].ret

\* C5: when the write to the redirect target fails, the dispatch returns a
\* failed result with exit code 1, an error message naming the target and no
\* output, and the tree is as the handler left it.
C5_FailedWrite ==
    WriteRefused
        => /\ last.result.defined
           /\ ~last.result.value.success
           /\ last.result.value.exitCode = 1
           /\ last.result.value.error.defined
           /\ Includes(last.result.value.error.value, last.parsed.value.redirectToFile.value)
           /\ ~last.result.value.output.defined
           /\ root = last.handlerRoot

\* A write redirected onto a directory of the current directory was refused
C5_Witness ==
    /\ WriteRefused
    /\ SucceededWithLines
    /\ IsDirectoryIn(TerminalFS, last.parsed.value.redirectToFile.value)

\* The name is neither a registered primary name nor a registered alias
Unregistered(name) ==
    /\ ~MapHas(commands, ToLowerCase(name))
    /\ ~MapHas(aliases, ToLowerCase(name))

\* C8: the dispatch of a non-blank line whose command name is neither a
\* registered primary name nor a registered alias, compared in lowercase,
\* returns success = false with exit code 127, invokes no handler and leaves
\* the tree and the current directory as they were.
C8_NotFound ==
    [][(/\ last'.op = "executeCommand"
        /\ Trim(last'.input) # <<>>
        /\ Unregistered(parseInput(last'.input).command))
           => /\ last'.result.defined
              /\ ~last'.result.value.success
              /\ last'.result.value.exitCode = 127
              /\ last'.invoked = "none"
              /\ last'.log = <<>>
              /\ root' = root
              /\ currentPath' = currentPath]_vars

\* An unregistered name in capitals, with a redirection, was dispatched
C8_Witness ==
    /\ last.op = "executeCommand"
    /\ last.parsed.defined
    /\ Unregistered(last.parsed.value.command)
    /\ last.parsed.value.command # ToLowerCase(last.parsed.value.command)
    /\ last.parsed.value.redirectToFile.defined

\* C9: when the handler throws, returns a rejected promise or returns no result
\* object, the dispatch resolves to a failed result with exit code 1.
C9_FaultBecomesFailure ==
    (last.op = "executeCommand" /\ last.handler.kind \in {"fault", "undefined"})
        => /\ last.result.defined
           /\ ~last.result.value.success
           /\ last.result.value.exitCode = 1


(***************************************************************************)
(* The file system under calls of its operations                           *)
(*                                                                         *)
(* Each action is one call on the terminal's VirtualFileSystem, or one run *)
(* of the BashInterpreter on a file of the tree; last records the call,    *)
(* what it returned and the mutating calls it made.                        *)
(***************************************************************************)

\* The calls create at most this many nodes beyond the initial tree
MaxCreated == 1

\* Names given to createFile, createDirectory and deleteNode
FSNames == { <<"d">> }

\* Names given to writeFile, readFile and executeScript
FSFiles == { <<"d">>, <<"s", "c", "r", "i", "p", "t", ".", "s", "h">> }

\* Paths given to setCurrentDirectory and to the queries
FSPaths == { <<"~">>, <<".", ".">>, <<"d">>, <<"s", "c", "r", "i", "p", "t", ".", "s", "h">> }

\* Contents given to createFile and writeFile: scripts of cd lines
FSContents == { <<"c", "d", " ", "d">>, <<"c", "d", " ", ".", ".">> }

SetCurrentDirectory(path) ==
    \E done \in { setCurrentDirectory(TerminalFS, path) } :
        /\ NodeCount(done.fs.root) <= NodeCount(InitialRoot) + MaxCreated
        /\ root' = done.fs.root
        /\ currentPath' = done.fs.currentPath
        /\ last' = [op |-> "setCurrentDirectory", arg |-> path, ret |-> done.ret, log |-> done.fs.log]
        /\ UNCHANGED <<commands, aliases, environment, history, loop>>

CreateFile(name, content) ==
    \E done \in { createFile(TerminalFS, name, content) } :
        /\ NodeCount(done.fs.root) <= NodeCount(InitialRoot) + MaxCreated
        /\ root' = done.fs.root
        /\ currentPath' = done.fs.currentPath
        /\ last' = [op |-> "createFile", arg |-> name, ret |-> done.ret, log |-> done.fs.log]
        /\ UNCHANGED <<commands, aliases, environment, history, loop>>

CreateDirectory(name) ==
    \E done \in { createDirectory(TerminalFS, name) } :
        /\ NodeCount(done.fs.root) <= NodeCount(InitialRoot) + MaxCreated
        /\ root' = done.fs.root
        /\ currentPath' = done.fs.currentPath
        /\ last' = [op |-> "createDirectory", arg |-> name, ret |-> done.ret, log |-> done.fs.log]
        /\ UNCHANGED <<commands, aliases, environment, history, loop>>

DeleteNode(name, recursive) ==
    \E done \in { deleteNode(TerminalFS, name, recursive) } :
        /\ NodeCount(done.fs.root) <= NodeCount(InitialRoot) + MaxCreated
        /\ root' = done.fs.root
        /\ currentPath' = done.fs.currentPath
        /\ last' = [op |-> "deleteNode", arg |-> name, recursive |-> recursive,
                    ret |-> done.ret, log |-> done.fs.log]
        /\ UNCHANGED <<commands, aliases, environment, history, loop>>

WriteFile(name, content) ==
    \E done \in { writeFile(TerminalFS, name, content) } :
        /\ NodeCount(done.fs.root) <= NodeCount(InitialRoot) + MaxCreated
        /\ root' = done.fs.root
        /\ currentPath' = done.fs.currentPath
        /\ last' = [op |-> "writeFile", arg |-> name, ret |-> done.ret, log |-> done.fs.log]
        /\ UNCHANGED <<commands, aliases, environment, history, loop>>

ReadFile(name) ==
    /\ last' = [op |-> "readFile", arg |-> name, ret |-> readFile(TerminalFS, name), log |-> <<>>]
    /\ UNCHANGED <<root, currentPath, commands, aliases, environment, history, loop>>

RECURSIVE NamesOf(_)
NamesOf(nodes) ==
    IF nodes = <<>> THEN <<>> ELSE <<nodes[1].name>> \o NamesOf(Tail(nodes))

ListDirectory(path) ==
    /\ last' = [op |-> "listDirectory", arg |-> path, ret |-> NamesOf(listDirectory(TerminalFS, path)), log |-> <<>>]
    /\ UNCHANGED <<root, currentPath, commands, aliases, environment, history, loop>>

Exists(path) ==
    /\ last' = [op |-> "exists", arg |-> path, ret |-> exists(TerminalFS, path), log |-> <<>>]
    /\ UNCHANGED <<root, currentPath, commands, aliases, environment, history, loop>>

GetNode(path) ==
    /\ last' = [op |-> "getNode", arg |-> path, ret |-> getNode(TerminalFS, path).defined, log |-> <<>>]
    /\ UNCHANGED <<root, currentPath, commands, aliases, environment, history, loop>>

\* new BashInterpreter(context).executeScript(name)
RunScript(name) ==
    \E done \in { executeScript([fs |-> TerminalFS, environment |-> environment,
                                 shown |-> <<>>], name) } :
        /\ root' = done.st.fs.root
        /\ currentPath' = done.st.fs.currentPath
        /\ environment' = done.st.environment
        /\ last' = [op |-> "executeScript", arg |-> name, ret |-> done.ret,
                    log |-> done.st.fs.log, shown |-> done.st.shown]
        /\ UNCHANGED <<commands, aliases, history, loop>>

InitFS ==
    /\ Constructed
    /\ last = [op |-> "start"]

NextFS ==
    \/ \E path \in FSPaths : SetCurrentDirectory(path)
    \/ \E name \in FSNames, content \in FSContents : CreateFile(name, content)
    \/ \E name \in FSNames : CreateDirectory(name)
    \/ \E name \in FSNames, recursive \in BOOLEAN : DeleteNode(name, recursive)
    \/ \E name \in FSFiles, content \in FSContents : WriteFile(name, content)
    \/ \E name \in FSFiles : ReadFile(name)
    \/ \E path \in FSPaths : ListDirectory(path)
    \/ \E path \in FSPaths : Exists(path)
    \/ \E path \in FSPaths : GetNode(path)
    \/ \E name \in FSFiles : RunScript(name)

SpecFS ==
    InitFS /\ [][NextFS]_vars


(***************************************************************************)
(* Claims about the current working path                                   *)
(***************************************************************************)

\* C6: in every state reached by calls of setCurrentDirectory, createFile,
\* createDirectory, deleteNode (recursive or not), writeFile and by script cd
\* lines, the node at getAbsolutePath(getCurrentDirectory()) exists and is a
\* directory.
C6_CurrentIsDirectory ==
    /\ getNodeByPath(TerminalFS, getAbsolutePath(currentPath)).defined
    /\ getNodeByPath(TerminalFS, getAbsolutePath(currentPath)).value.type = "directory"

\* The mutating calls logged by the last action include a setCurrentDirectory
\* that returned true
ChangedDirectory ==
    \E i \in DOMAIN last.log :
        last.log[i].call = "setCurrentDirectory" /\ last.log[i].ret

\* The cd line of a script has moved the current directory into a directory
\* created by createDirectory
C6_Witness ==
    /\ last.op = "executeScript"
    /\ ChangedDirectory
    /\ currentPath = <<"~", "/", "d">>

\* The target of setCurrentDirectory(path) is missing or is a file
NoSuchDirectory(fs, path) ==
    \/ ~getNodeByPath(fs, resolvePath(fs, path)).defined
    \/ getNodeByPath(fs, resolvePath(fs, path)).value.type = "file"

\* C7: the current working path changes only in a step that makes a
\* setCurrentDirectory call returning true; a setCurrentDirectory whose target
\* is missing or is a file returns false and leaves it unchanged; createFile,
\* createDirectory, deleteNode, readFile, writeFile, listDirectory, exists and
\* getNode never change it.
C7_OnlySetCurrentDirectory ==
    [][/\ currentPath' # currentPath => ChangedDirectory'
       /\ (last'.op = "setCurrentDirectory" /\ NoSuchDirectory(TerminalFS, last'.arg))
             => ~last'.ret /\ currentPath' = currentPath
       /\ last'.op \in {"createFile", "createDirectory", "deleteNode", "readFile",
                        "writeFile", "listDirectory", "exists", "getNode"}
             => currentPath' = currentPath]_vars

\* setCurrentDirectory was refused on a file away from the home directory
C7_Witness ==
    /\ last.op = "setCurrentDirectory"
    /\ ~last.ret
    /\ currentPath # <<"~">>
    /\ getNode(TerminalFS, last.arg).defined
    /\ getNode(TerminalFS, last.arg).value.type = "file"


(***************************************************************************)
(* The terminal under key events                                           *)
(*                                                                         *)
(* The host runs the keydown listener once per key event, each run a task  *)
(* of its event loop; an await suspends an async function and queues its   *)
(* continuation as a microtask; the host takes the next task only when no  *)
(* microtask is waiting.                                                   *)
(*                                                                         *)
(* loop = [tasks, jobs, active, submitted]: the tasks and the microtasks   *)
(* that wait, the executions of HTerminal.executeCommand that have begun   *)
(* and not returned, and the number of key events so far.  A suspended     *)
(* execution is a frame: the line, its parse and handler, the await it     *)
(* stands at (at), and what that await will yield -                        *)
(*   "line"      executeScript, at await this.executeScriptLine(line):     *)
(*               ret, and the lines still to run, rest                     *)
(*   "returned"  the script handler, at await interpreter.executeScript:   *)
(*               ret                                                       *)
(*   "handled"   CommandProcessor.executeCommand, at await Promise.resolve *)
(*               (targetCommand.execute(fullContext)): handled             *)
(*   "display"   HTerminal.executeCommand, at await this.commandProcessor  *)
(*               .executeCommand(command, context): result                 *)
(***************************************************************************)

\* HTerminal's config: maxHistorySize
MaxHistorySize == 1000

\* TerminalHistory.add(command)
historyAdd(h, command) ==
    IF Trim(command) = <<>> THEN h
    ELSE IF Len(h.history) > 0 /\ h.history[Len(h.history)] = command THEN h
    ELSE IF Len(h.history) + 1 > MaxHistorySize
    THEN [history |-> Tail(Append(h.history, command)), currentIndex |-> Len(h.history)]
    ELSE [history |-> Append(h.history, command), currentIndex |-> Len(h.history) + 1]

\* TerminalHistory.resetIndex()
resetIndex(h) ==
    [h EXCEPT !.currentIndex = Len(h.history)]

\* HTerminal.updateEnvironment()
updateEnvironment(fs, env) ==
    MapSet(env, <<"P", "W", "D">>, getAbsolutePath(fs.currentPath))

\* A frame of the execution id of the line input
Frame(id, input, parsed, handler) ==
    [id |-> id, input |-> input, parsed |-> parsed, handler |-> handler,
     at |-> "none", ret |-> TRUE, rest |-> <<>>, handled |-> Undefined,
     result |-> Undefined]

\* What a run of code leaves: the file system, the environment, the lines it
\* showed and the await it stopped at (undefined when the execution returned)
Progress(fs, env, shown, frame) ==
    [fs |-> fs, environment |-> env, shown |-> shown, frame |-> frame]

AtLine(frame, ret, rest) ==
    Some([frame EXCEPT !.at = "line", !.ret = ret, !.rest = rest])

AtReturned(frame, ret) ==
    Some([frame EXCEPT !.at = "returned", !.ret = ret, !.rest = <<>>])

AtHandled(frame, handled) ==
    Some([frame EXCEPT !.at = "handled",
                       !.handled = Some([fault |-> handled.fault,
                                         message |-> IF handled.fault THEN handled.message
                                                     ELSE <<>>,
                                         result |-> handled.result])])

AtDisplay(frame, result) ==
    Some([frame EXCEPT !.at = "display", !.handled = Undefined, !.result = result])

\* executeScript's loop having run up to its next await, or to its end
scriptAwaits(frame, done) ==
    Progress(done.st.fs, done.st.environment, done.st.shown,
             IF done.awaiting THEN AtLine(frame, done.ret, done.rest)
             ELSE AtReturned(frame, TRUE))

\* One line having run: the loop stops at the await on it
Awaited(done, rest) ==
    [st |-> done.st, awaiting |-> TRUE, ret |-> done.ret, rest |-> rest]

\* executeScript's loop from lines on, up to the first line it awaits
RECURSIVE scriptAdvance(_, _)
scriptAdvance(st, lines) ==
    IF lines = <<>> THEN [st |-> st, awaiting |-> FALSE, ret |-> TRUE, rest |-> <<>>]
    ELSE IF Trim(lines[1]) = <<>> \/ StartsWith(Trim(lines[1]), <<"#">>)
    THEN scriptAdvance(st, Tail(lines))
    ELSE Awaited(executeScriptLine(st, Trim(lines[1])), Tail(lines))

\* executeScript from its call to its first await, start being what the part
\* before the loop left
scriptEntered(frame, start) ==
    IF start.ret = "run"
    THEN scriptAwaits(frame, scriptAdvance(start.st, start.lines))
    ELSE Progress(start.st.fs, start.st.environment, start.st.shown,
                  AtReturned(frame, start.ret = "true"))

\* A script handler from its call to its first await
scriptCalled(frame, ctx, refusal, scriptPath) ==
    IF refusal.defined
    THEN Progress(ctx.fs, ctx.environment, <<>>,
                  AtHandled(frame, Outcome(ctx.fs, ctx.environment, <<>>, refusal)))
    ELSE scriptEntered(frame, scriptStart(InterpreterOf(ctx), scriptPath))

\* A handler that is not a script handler runs to its end when it is called
handlerCalled(frame, handled) ==
    Progress(handled.fs, handled.environment, handled.shown, AtHandled(frame, handled))

\* targetCommand.execute(fullContext), up to the first await
called(frame, ctx) ==
    IF frame.handler = "BashCommand"
    THEN scriptCalled(frame, ctx, BashCommandRefusal(ctx), ctx.args[1])
    ELSE IF frame.handler = "ExecuteCommand"
    THEN scriptCalled(frame, ctx, ExecuteCommandRefusal(ctx), CleanName(ctx.args[1]))
    ELSE handlerCalled(frame, Execute(frame.handler, ctx))

\* CommandProcessor.executeCommand from the lookup on, up to the first await
lookedUp(reg, fs, env, id, input, parsed, actualCommandName) ==
    IF ~MapHas(reg.commands, actualCommandName)
    THEN Progress(fs, env, <<>>,
                  AtDisplay(Frame(id, input, parsed, "none"), Some(notFound(parsed.command))))
    ELSE called(Frame(id, input, parsed, reg.commands[actualCommandName].handler),
                [args |-> parsed.args, flags |-> parsed.flags,
                 fs |-> fs, environment |-> env])

\* CommandProcessor.executeCommand from the parse on, up to the first await
parsedLine(reg, fs, env, id, input, parsed) ==
    lookedUp(reg, fs, env, id, input, parsed, ActualName(reg, parsed.command))

\* HTerminal.executeCommand(command), up to the first await: a blank line
\* returns at once
begun(reg, fs, env, id, input) ==
    IF Trim(input) = <<>> THEN Progress(fs, env, <<>>, Undefined)
    ELSE parsedLine(reg, fs, env, id, input, parseInput(input))


(***************************************************************************)
(* The continuations and the event loop                                    *)
(***************************************************************************)

\* executeScript resumed at its await on a line
lineResumed(fs, env, frame) ==
    IF ~frame.ret THEN Progress(fs, env, <<>>, AtReturned(frame, FALSE))
    ELSE scriptAwaits(frame,
                      scriptAdvance([fs |-> fs, environment |-> env, shown |-> <<>>],
                                    frame.rest))

\* The script handler resumed at its await on executeScript: it returns
\* { success, exitCode: success ? 0 : 1 }
returnedResumed(fs, env, frame) ==
    Progress(fs, env, <<>>,
             AtHandled(frame, Outcome(fs, env, <<>>, Some(ScriptResult(frame.ret)))))

\* The handled of a frame, on the file system as it is now
HandledNow(fs, env, handled) ==
    IF handled.fault THEN Fault(fs, env, handled.message)
    ELSE Outcome(fs, env, <<>>, handled.result)

\* CommandProcessor.executeCommand having settled on after
settled(env, frame, after) ==
    Progress(after.fs, env, <<>>, AtDisplay(frame, after.result))

\* CommandProcessor.executeCommand resumed at its await on the handler
handledResumed(fs, env, frame) ==
    settled(env, frame, afterHandler(frame.parsed, HandledNow(fs, env, frame.handled.value)))

\* The lines HTerminal.executeCommand shows for a result; a result that is
\* undefined faults on result.output, and the catch shows the fault
Displayed(result) ==
    IF ~result.defined
    THEN << <<"E", "r", "r", "o", "r", ":", " ">> \o <<"C", "a", "n", "n", "o", "t", " ", "r", "e", "a", "d", " ", "p", "r", "o", "p", "e", "r", "t", "i", "e", "s", " ", "o", "f", " ", "u", "n", "d", "e", "f", "i", "n", "e", "d", " ", "(", "r", "e", "a", "d", "i", "n", "g", " ", "'", "o", "u", "t", "p", "u", "t", "'", ")">> >>
    ELSE (IF result.value.output.defined THEN result.value.output.value ELSE <<>>)
            \o (IF ~result.value.success /\ Truthy(result.value.error)
                THEN <<result.value.error.value>> ELSE <<>>)

\* HTerminal.executeCommand resumed at its await on the dispatch: it shows the
\* result, updates the environment and returns
displayResumed(fs, env, frame) ==
    Progress(fs, updateEnvironment(fs, env), Displayed(frame.result), Undefined)

\* The continuation of a frame, up to its next await
resumed(fs, env, frame) ==
    CASE frame.at = "line" -> lineResumed(fs, env, frame)
      [] frame.at = "returned" -> returnedResumed(fs, env, frame)
      [] frame.at = "handled" -> handledResumed(fs, env, frame)
      [] frame.at = "display" -> displayResumed(fs, env, frame)

\* What the event loop holds in its queues
KeyEvent(id, input) ==
    [kind |-> "key", id |-> id, input |-> input]

Continuation(frame) ==
    [kind |-> "resume", frame |-> frame]

\* await, had it handed the continuation to a timer: it is queued as a task
SuspendAsTask(lp, frame) ==
    [lp EXCEPT !.tasks = Append(@, Continuation(frame))]

\* await: the continuation is queued as a microtask
Suspend(lp, frame) ==
    [lp EXCEPT !.jobs = Append(@, Continuation(frame))]

\* The event loop after a run on behalf of execution id that left done
Scheduled(lp, id, done) ==
    IF done.frame.defined
    THEN Suspend([lp EXCEPT !.active = @ \cup {id}], done.frame.value)
    ELSE [lp EXCEPT !.active = @ \ {id}]

\* The terminal: file system, environment, history and event loop
Terminal(fs, env, h, lp, shown, id) ==
    [fs |-> fs, environment |-> env, history |-> h, loop |-> lp, shown |-> shown,
     id |-> id]

Ran(lp, h, id, done) ==
    Terminal(done.fs, done.environment, h, Scheduled(lp, id, done), done.shown, id)

\* TerminalInputHandler.handleEnter() on the line input of the key event id:
\* history.add, history.resetIndex, onCommandExecute
handleEnter(reg, fs, env, h, lp, id, input) ==
    Ran(lp, resetIndex(historyAdd(h, input)), id, begun(reg, fs, env, id, input))

\* The run of what the event loop took from a queue, lp being the loop without it
run(reg, fs, env, h, lp, entry) ==
    IF entry.kind = "key" THEN handleEnter(reg, fs, env, h, lp, entry.id, entry.input)
    ELSE Ran(lp, h, entry.frame.id, resumed(fs, env, entry.frame))


(***************************************************************************)
(* The terminal as the event loop runs it                                  *)
(***************************************************************************)

\* Key events per behaviour
MaxSubmitted == 3

\* The lines typed
LoopLines ==
    { <<"e", "c", "h", "o", " ", "c", "d", " ", "D", "o", "c", "u", "m", "e", "n", "t", "s", " ", ">", ">", " ", "s", "c", "r", "i", "p", "t", ".", "s", "h">>,
      <<"b", "a", "s", "h", " ", "s", "c", "r", "i", "p", "t", ".", "s", "h">>,
      <<".", "/", "s", "c", "r", "i", "p", "t", ".", "s", "h">>,
      <<"m", "k", "d", "i", "r", " ", "d">>,
      <<" ", " ", " ">> }

InitLoop ==
    /\ root = StartFileSystem.root
    /\ currentPath = StartFileSystem.currentPath
    /\ commands = registerAll(StartRegistry, ScriptCommands).commands
    /\ aliases = registerAll(StartRegistry, ScriptCommands).aliases
    /\ environment = StartEnvironment
    /\ history = StartHistory
    /\ loop = StartLoop
    /\ last = [op |-> "start"]

\* The user presses Enter on the line input: the host queues the key event
KeyEnter(input) ==
    /\ loop.submitted < MaxSubmitted
    /\ loop' = [loop EXCEPT !.tasks = Append(@, KeyEvent(loop.submitted + 1, input)),
                            !.submitted = @ + 1]
    /\ last' = [op |-> "keydown", id |-> loop.submitted + 1, before |-> loop.active,
                at |-> "none", log |-> <<>>, shown |-> <<>>]
    /\ UNCHANGED <<root, currentPath, commands, aliases, environment, history>>

\* The host takes the next task, no microtask waiting
RunTask ==
    /\ loop.tasks # <<>>
    /\ loop.jobs = <<>>
    /\ \E done \in { run([commands |-> commands, aliases |-> aliases], TerminalFS,
                         environment, history, [loop EXCEPT !.tasks = Tail(@)],
                         Head(loop.tasks)) } :
        /\ root' = done.fs.root
        /\ currentPath' = done.fs.currentPath
        /\ environment' = done.environment
        /\ history' = done.history
        /\ loop' = done.loop
        /\ last' = [op |-> "task", id |-> done.id, before |-> loop.active,
                    at |-> IF Head(loop.tasks).kind = "key" THEN "enter"
                           ELSE Head(loop.tasks).frame.at,
                    log |-> done.fs.log, shown |-> done.shown]
        /\ UNCHANGED <<commands, aliases>>

\* The host runs the next microtask
RunJob ==
    /\ loop.jobs # <<>>
    /\ \E done \in { run([commands |-> commands, aliases |-> aliases], TerminalFS,
                         environment, history, [loop EXCEPT !.jobs = Tail(@)],
                         Head(loop.jobs)) } :
        /\ root' = done.fs.root
        /\ currentPath' = done.fs.currentPath
        /\ environment' = done.environment
        /\ history' = done.history
        /\ loop' = done.loop
        /\ last' = [op |-> "job", id |-> done.id, before |-> loop.active,
                    at |-> Head(loop.jobs).frame.at,
                    log |-> done.fs.log, shown |-> done.shown]
        /\ UNCHANGED <<commands, aliases>>

NextLoop ==
    \/ \E input \in LoopLines : KeyEnter(input)
    \/ RunTask
    \/ RunJob

SpecLoop == InitLoop /\ [][NextLoop]_vars


(***************************************************************************)
(* One execution at a time                                                 *)
(***************************************************************************)

\* C10: at most one command execution is in progress at any time - a line is
\* begun only when no earlier execution is still in progress, and code runs
\* on behalf of an execution only when no other execution is in progress, so
\* the tree operations of two commands never interleave.
C10_OneExecutionAtATime ==
    /\ Cardinality(loop.active) <= 1
    /\ last.op \in {"task", "job"} => last.before \subseteq {last.id}
    /\ (last.op \in {"task", "job"} /\ last.at = "enter") => last.before = {}

\* Enter is pressed while a script run is suspended between two of its lines
C10_Witness ==
    /\ last.op = "keydown"
    /\ loop.active # {}
    /\ loop.jobs # <<>>
    /\ Head(loop.jobs).frame.at = "line"
    /\ Head(loop.jobs).frame.rest # <<>>
    /\ Head(loop.tasks).kind = "key"


(***************************************************************************)
(* The command registry                                                    *)
(*                                                                         *)
(* CommandProcessor keeps two maps: commands, from a lower-cased primary   *)
(* name to the command object, and aliases, from a lower-cased alias to a  *)
(* lower-cased primary name.                                               *)
(***************************************************************************)

\* command.aliases.forEach(alias => this.aliases.delete(alias.toLowerCase()))
RECURSIVE deleteAliases(_, _)
deleteAliases(aliasMap, aliasList) ==
    IF aliasList = <<>> THEN aliasMap
    ELSE deleteAliases(MapDelete(aliasMap, ToLowerCase(aliasList[1])), Tail(aliasList))

\* unregisterCommand(name)
unregisterCommand(reg, name) ==
    IF ~MapHas(reg.commands, ToLowerCase(name)) THEN reg
    ELSE [commands |-> MapDelete(reg.commands, ToLowerCase(name)),
          aliases |-> deleteAliases(reg.aliases, reg.commands[ToLowerCase(name)].aliases)]

\* getCommand's actualName: this.aliases.get(name.toLowerCase()) || name.toLowerCase()
getCommandName(reg, name) ==
    IF MapHas(reg.aliases, ToLowerCase(name)) /\ reg.aliases[ToLowerCase(name)] # <<>>
    THEN reg.aliases[ToLowerCase(name)]
    ELSE ToLowerCase(name)

\* getCommand(name), as a value that may be undefined
getCommand(reg, name) ==
    IF MapHas(reg.commands, getCommandName(reg, name))
    THEN Some(reg.commands[getCommandName(reg, name)])
    ELSE Undefined

\* The registry the processor holds
Registry ==
    [commands |-> commands, aliases |-> aliases]

\* Primary names given to the registry: two that differ beyond case, one in capitals
RegistryNames ==
    { <<"a">>, <<"b">>, <<"B">> }

\* Alias lists given to the registry
RegistryAliases ==
    { <<>>, <<<<"a">>>>, <<<<"A">>>>, <<<<"x">>>> }

\* The handler of a command by its primary name, so that the handler a dispatch
\* invoked tells the commands of different names apart
RegistryHandler(name) ==
    IF ToLowerCase(name) = <<"a">> THEN "WhoamiCommand" ELSE "HostnameCommand"

\* The command objects given to registerCommand
RegistryCommands ==
    { Command(name, aliasList, RegistryHandler(name)) :
        name \in RegistryNames, aliasList \in RegistryAliases }

\* Names given to unregisterCommand, getCommand and the dispatcher
RegistryLookups ==
    { <<"a">>, <<"A">>, <<"b">>, <<"x">> }

\* CommandProcessor as constructed, in the terminal as constructed
InitRegistry ==
    /\ root = StartFileSystem.root
    /\ currentPath = StartFileSystem.currentPath
    /\ commands = EmptyRegistry.commands
    /\ aliases = EmptyRegistry.aliases
    /\ environment = StartEnvironment
    /\ history = StartHistory
    /\ loop = StartLoop
    /\ last = [op |-> "start"]

RegisterCommand(command) ==
    \E done \in { registerCommand(Registry, command) } :
        /\ commands' = done.commands
        /\ aliases' = done.aliases
        /\ last' = [op |-> "registerCommand", command |-> command]
        /\ UNCHANGED <<root, currentPath, environment, history, loop>>

UnregisterCommand(name) ==
    \E done \in { unregisterCommand(Registry, name) } :
        /\ commands' = done.commands
        /\ aliases' = done.aliases
        /\ last' = [op |-> "unregisterCommand", name |-> name,
                    registered |-> MapHas(commands, ToLowerCase(name))]
        /\ UNCHANGED <<root, currentPath, environment, history, loop>>

GetCommand(name) ==
    /\ last' = [op |-> "getCommand", name |-> name, ret |-> getCommand(Registry, name)]
    /\ UNCHANGED <<root, currentPath, commands, aliases, environment, history, loop>>

NextRegistry ==
    \/ \E command \in RegistryCommands : RegisterCommand(command)
    \/ \E name \in RegistryLookups : UnregisterCommand(name)
    \/ \E name \in RegistryLookups : GetCommand(name)
    \/ \E name \in RegistryLookups : Dispatch(name)

SpecRegistry == InitRegistry /\ [][NextRegistry]_vars

\* C11: immediately after registerCommand(c), getCommand(c.name) returns c and
\* getCommand(a) returns c for each alias a of c, whatever was registered before.
C11_LastRegistrationWins ==
    last.op = "registerCommand" =>
        /\ getCommand(Registry, last.command.name) = Some(last.command)
        /\ \A i \in 1..Len(last.command.aliases) :
               getCommand(Registry, last.command.aliases[i]) = Some(last.command)

\* C12: when command B is registered with an alias equal to the primary name of
\* an already registered command A, getCommand of that name and the dispatch of
\* that name both resolve to B.
C12_AliasOverPrimaryName ==
    [][ last'.op = "registerCommand" =>
          \A i \in 1..Len(last'.command.aliases) :
              MapHas(commands, ToLowerCase(last'.command.aliases[i])) =>
                  /\ getCommand([commands |-> commands', aliases |-> aliases'],
                                last'.command.aliases[i]) = Some(last'.command)
                  /\ executeCommand([commands |-> commands', aliases |-> aliases'],
                                    TerminalFS, environment,
                                    last'.command.aliases[i]).invoked
                         = last'.command.handler ]_vars

\* Command b has just been registered with the alias a over a registered command a,
\* and the dispatch of a invokes b's handler
C12_Witness ==
    /\ last.op = "executeCommand"
    /\ last.input = <<"a">>
    /\ last.invoked = "HostnameCommand"
    /\ MapHas(commands, <<"a">>)
    /\ commands[<<"a">>].handler = "WhoamiCommand"
    /\ MapHas(aliases, <<"a">>)

\* C13: after unregisterCommand(n) for a registered primary name n, getCommand(n)
\* is undefined and no entry of the alias map points to n.
C13_NoDanglingAlias ==
    (last.op = "unregisterCommand" /\ last.registered) =>
        /\ ~getCommand(Registry, last.name).defined
        /\ \A alias \in DOMAIN aliases : aliases[alias] # ToLowerCase(last.name)


(***************************************************************************)
(* The file commands at the prompt                                         *)
(***************************************************************************)

\* The lines typed: mkdir and rm with one and with several operands, with and
\* without flags, and the cd lines that move between ~ and Documents
ShellLines ==
    { <<"m", "k", "d", "i", "r", " ", "d">>, <<"m", "k", "d", "i", "r", " ", "d", " ", "D", "o", "c", "u", "m", "e", "n", "t", "s">>, <<"m", "k", "d", "i", "r", " ", "D", "o", "c", "u", "m", "e", "n", "t", "s", " ", "d">>,
      <<"r", "m", " ", "d">>, <<"r", "m", " ", "r", "e", "a", "d", "m", "e", ".", "t", "x", "t", " ", "n", "o", "f", "i", "l", "e">>, <<"r", "m", " ", "n", "o", "f", "i", "l", "e", " ", "r", "e", "a", "d", "m", "e", ".", "t", "x", "t">>,
      <<"r", "m", " ", "D", "o", "c", "u", "m", "e", "n", "t", "s">>, <<"r", "m", " ", "-", "r", " ", "D", "o", "c", "u", "m", "e", "n", "t", "s">>, <<"r", "m", " ", "D", "o", "c", "u", "m", "e", "n", "t", "s", " ", "-", "r">>,
      <<"c", "d", " ", "D", "o", "c", "u", "m", "e", "n", "t", "s">>, <<"c", "d", " ", "~">> }

\* The terminal as constructed
InitShell ==
    /\ Constructed
    /\ last = [op |-> "start"]

NextShell ==
    \E input \in ShellLines : Dispatch(input)

SpecShell == InitShell /\ [][NextShell]_vars

\* The handler of the last dispatch returned a failed result
HandlerFailed(l) ==
    /\ l.op = "executeCommand"
    /\ l.handler.kind = "result"
    /\ ~l.handler.result.success

\* C14: a mkdir or rm invocation with several operands that reports failure
\* leaves the tree exactly as it was before the invocation.
C14_AllOrNothing ==
    [][ (/\ HandlerFailed(last')
         /\ last'.invoked \in {"MkdirCommand", "RmCommand"}
         /\ Len(last'.parsed.value.args) > 1)
        => root' = root ]_vars

\* name is a directory of the current directory that has at least one entry
NonEmptyDirectoryIn(fs, name) ==
    /\ IsDirectoryIn(fs, name)
    /\ listDirectory(fs, name) # <<>>

\* C15: the dispatch of `rm -r d`, d a non-empty directory of the current
\* directory, succeeds and removes d.
C15_RmRecursive ==
    [][ (/\ last'.op = "executeCommand"
         /\ last'.input = <<"r", "m", " ", "-", "r", " ", "D", "o", "c", "u", "m", "e", "n", "t", "s">>
         /\ NonEmptyDirectoryIn(TerminalFS, <<"D", "o", "c", "u", "m", "e", "n", "t", "s">>))
        => /\ last'.result.defined
           /\ last'.result.value.success
           /\ ~exists([root |-> root', currentPath |-> currentPath', log |-> <<>>],
                      <<"D", "o", "c", "u", "m", "e", "n", "t", "s">>) ]_vars


(***************************************************************************)
(* The tree under names with and without a slash                           *)
(*                                                                         *)
(* createFile, createDirectory and deleteNode take a name and work on the  *)
(* children of the current directory; exists and getNode take a path.      *)
(***************************************************************************)

\* Names given to createFile, createDirectory, deleteNode and exists
TreeNames ==
    { <<"d">>, <<"D", "o", "c", "u", "m", "e", "n", "t", "s">>, <<"u", "s", "e", "r", "/", "D", "o", "c", "u", "m", "e", "n", "t", "s">> }

\* Paths given to setCurrentDirectory
TreePaths ==
    { <<"~">>, <<".", ".">>, <<"D", "o", "c", "u", "m", "e", "n", "t", "s">> }

\* Paths given to listDirectory: none, directories, a file and a missing target
TreeListPaths ==
    { <<>>, <<"~">>, <<".", ".">>, <<"D", "o", "c", "u", "m", "e", "n", "t", "s">>, <<"d">>, <<"u", "s", "e", "r", "/", "D", "o", "c", "u", "m", "e", "n", "t", "s">>, <<"r", "e", "a", "d", "m", "e", ".", "t", "x", "t">>,
      <<"n", "o", "f", "i", "l", "e">> }

InitTree ==
    /\ Constructed
    /\ last = [op |-> "start"]

NextTree ==
    \/ \E path \in TreePaths : SetCurrentDirectory(path)
    \/ \E name \in TreeNames, content \in FSContents : CreateFile(name, content)
    \/ \E name \in TreeNames : CreateDirectory(name)
    \/ \E name \in TreeNames, recursive \in BOOLEAN : DeleteNode(name, recursive)
    \/ \E path \in TreeListPaths : ListDirectory(path)
    \/ \E path \in TreeNames : Exists(path)

SpecTree == InitTree /\ [][NextTree]_vars

\* The file system after the step
TerminalFSAfter ==
    [root |-> root', currentPath |-> currentPath', log |-> <<>>]

\* The entries of the current directory
CurrentEntries(fs) ==
    getCurrentDirectoryNode(fs).value.children.value

\* name is the key of an entry of the current directory
IsEntry(fs, name) ==
    EntriesHas(CurrentEntries(fs), name)

\* C16: createFile(x) on a name x that already exists in the current directory
\* returns false and leaves the existing node, and the whole tree, unchanged.
C16_CreateFileOnExisting ==
    [][ (last'.op = "createFile" /\ IsEntry(TerminalFS, last'.arg))
        => ~last'.ret /\ root' = root ]_vars

\* C17: whenever createFile(x) or createDirectory(x) returns true, exists(x) is
\* true immediately afterwards and a second identical call returns false.
C17_CreatedThenExists ==
    [][ (last'.op \in {"createFile", "createDirectory"} /\ last'.ret)
        => /\ exists(TerminalFSAfter, last'.arg)
           /\ ~createDirectory(TerminalFSAfter, last'.arg).ret
           /\ \A content \in FSContents :
                  ~createFile(TerminalFSAfter, last'.arg, content).ret ]_vars

\* name is an entry of the current directory, a directory with an entry of its own
IsNonEmptyDirectoryEntry(fs, name) ==
    /\ IsEntry(fs, name)
    /\ EntriesGet(CurrentEntries(fs), name).type = "directory"
    /\ EntriesGet(CurrentEntries(fs), name).children.value # <<>>

\* C18: deleteNode(d, recursive = false) on a non-empty directory d of the
\* current directory returns false and leaves d and its descendants in the
\* tree; deleteNode on an absent name returns false and changes nothing.
C18_DeleteRefused ==
    [][ /\ (/\ last'.op = "deleteNode"
            /\ ~last'.recursive
            /\ IsNonEmptyDirectoryEntry(TerminalFS, last'.arg))
           => ~last'.ret /\ root' = root /\ currentPath' = currentPath
        /\ (last'.op = "deleteNode" /\ ~IsEntry(TerminalFS, last'.arg))
           => ~last'.ret /\ root' = root /\ currentPath' = currentPath ]_vars

\* deleteNode without recursive was refused on Documents, which holds an entry
C18_Witness ==
    /\ last.op = "deleteNode"
    /\ last.arg = <<"D", "o", "c", "u", "m", "e", "n", "t", "s">>
    /\ ~last.recursive
    /\ ~last.ret
    /\ IsNonEmptyDirectoryEntry(TerminalFS, <<"D", "o", "c", "u", "m", "e", "n", "t", "s">>)

\* C19: deleteNode(d, recursive = true) on an existing entry d of the current
\* directory returns true; afterwards exists(d) is false, no path below d
\* resolves to a node, and the other entries of the current directory are as
\* they were.
C19_DeleteRecursive ==
    [][ (last'.op = "deleteNode" /\ last'.recursive /\ IsEntry(TerminalFS, last'.arg))
        => /\ last'.ret
           /\ ~exists(TerminalFSAfter, last'.arg)
           /\ \A name \in TreeNames :
                  ~exists(TerminalFSAfter, last'.arg \o <<"/">> \o name)
           /\ currentPath' = currentPath
           /\ \A k \in 1..Len(CurrentEntries(TerminalFS)) :
                  CurrentEntries(TerminalFS)[k].key # last'.arg
                      => /\ IsEntry(TerminalFSAfter, CurrentEntries(TerminalFS)[k].key)
                         /\ EntriesGet(CurrentEntries(TerminalFSAfter),
                                       CurrentEntries(TerminalFS)[k].key)
                                = CurrentEntries(TerminalFS)[k].node ]_vars

\* The target of listDirectory(path) is a directory
ListsDirectory(fs, path) ==
    IF path = <<>> THEN getCurrentDirectoryNode(fs).defined
    ELSE /\ getNodeByPath(fs, resolvePath(fs, path)).defined
         /\ getNodeByPath(fs, resolvePath(fs, path)).value.type = "directory"

\* A listing has no name twice, every directory before every file, and in each
\* group the names in the order of name.localeCompare
WellListed(listing) ==
    \A i, j \in 1..Len(listing) :
        i < j => /\ listing[i].name # listing[j].name
                 /\ ~(listing[i].type = "file" /\ listing[j].type = "directory")
                 /\ listing[i].type = listing[j].type
                        => localeCompare(listing[i].name, listing[j].name) < 0

MaxScriptLines == 2

\* The lines scripts are made of: the built-ins with an effect, a name of the
\* main registry, a blank line and three shebang lines
ScriptLineSet ==
    { <<"e", "c", "h", "o", " ", "h", "i">>, <<"e", "x", "p", "o", "r", "t", " ", "A", "=", "b">>, <<"c", "d", " ", "D", "o", "c", "u", "m", "e", "n", "t", "s">>, <<"w", "h", "o", "a", "m", "i">>, <<>>,
      <<"#", "!", "/", "b", "i", "n", "/", "b", "a", "s", "h">>, <<"#", "!", "/", "u", "s", "r", "/", "b", "i", "n", "/", "p", "y", "t", "h", "o", "n">>, <<"#", "!", "/", "u", "s", "r", "/", "s", "h", "a", "r", "e", "/", "p", "y", "t", "h", "o", "n">> }

ScriptFile == <<"/", "h", "o", "m", "e", "/", "u", "s", "e", "r", "/", "s", "c", "r", "i", "p", "t", ".", "s", "h">>

\* Paths given to executeScript: the script by its absolute path and by its
\* name, a directory of the home directory, a name that is nowhere
ScriptPaths ==
    { ScriptFile, <<"s", "c", "r", "i", "p", "t", ".", "s", "h">>, <<"D", "o", "c", "u", "m", "e", "n", "t", "s">>, <<"n", "o", "f", "i", "l", "e">> }

InitScript ==
    /\ Constructed
    /\ last = [op |-> "start"]

\* The text of the script
ScriptText ==
    OrEmpty(readFile(TerminalFS, ScriptFile))

\* appendToFile(fileSystem, '/home/user/script.sh', line): the script gets one
\* more line
AppendLine(line) ==
    /\ ScriptText = <<>> \/ Len(Split(ScriptText, "\n")) < MaxScriptLines
    /\ WriteFile(ScriptFile, appended(ScriptText, line))

\* writeToFile(fileSystem, '/home/user/script.sh', ''): the script is emptied
EmptyScript ==
    WriteFile(ScriptFile, <<>>)

NextScript ==
    \/ \E line \in ScriptLineSet : AppendLine(line)
    \/ EmptyScript
    \/ \E path \in ScriptPaths : RunScript(path)
    \/ SetCurrentDirectory(<<"~">>)

SpecScript == InitScript /\ [][NextScript]_vars

\* The interpreter at the start of a run on the terminal's state
TerminalInterpreter ==
    [fs |-> TerminalFS, environment |-> environment, shown |-> <<>>]

\* The lines of the script at scriptPath, as executeScript splits them
LinesAt(scriptPath) ==
    FilterNonBlank(Split(readFile(TerminalFS, scriptPath).value, "\n"))

\* The step is a run of a script that passed the read and the shebang test
RunsLines ==
    /\ last'.op = "executeScript"
    /\ Truthy(readFile(TerminalFS, last'.arg))
    /\ LinesAt(last'.arg) # <<>>
    /\ ShebangAccepted(LinesAt(last'.arg))

\* The command names the interpreter has a case for
ScriptBuiltins ==
    { <<"e", "c", "h", "o">>, <<"e", "x", "p", "o", "r", "t">>, <<"c", "d">>, <<"l", "s">> }

\* rawLine is a command line whose command name is not a built-in
IsForeign(rawLine) ==
    /\ Trim(rawLine) # <<>>
    /\ ~StartsWith(Trim(rawLine), <<"#">>)
    /\ parseCommand(Trim(rawLine)) # <<>>
    /\ parseCommand(Trim(rawLine))[1] \notin ScriptBuiltins

\* The index of the first such line of lines, 0 if there is none
FirstForeign(lines) ==
    IF \E k \in 1..Len(lines) : IsForeign(lines[k])
    THEN CHOOSE k \in 1..Len(lines) :
             IsForeign(lines[k]) /\ \A j \in 1..(k - 1) : ~IsForeign(lines[j])
    ELSE 0

\* What the terminal shows for a command name the interpreter does not know
ForeignMessage(rawLine) ==
    <<"b", "a", "s", "h", ":", " ">> \o parseCommand(Trim(rawLine))[1] \o <<":", " ", "c", "o", "m", "m", "a", "n", "d", " ", "n", "o", "t", " ", "f", "o", "u", "n", "d">>

\* The step left the state that the run of the lines before lines[k] leaves,
\* before being the result of that run, and showed what it shows and then, if it
\* came to lines[k], the message for its name
StoppedAt(lines, k, before) ==
    /\ ~last'.ret
    /\ root' = before.st.fs.root
    /\ currentPath' = before.st.fs.currentPath
    /\ environment' = before.st.environment
    /\ last'.shown = before.st.shown
                         \o (IF before.ret THEN <<ForeignMessage(lines[k])>> ELSE <<>>)

ShellNames ==
    { <<"s", "h">>, <<"b", "a", "s", "h">>, <<"z", "s", "h">>, <<"k", "s", "h">>, <<"c", "s", "h">>, <<"t", "c", "s", "h">>, <<"d", "a", "s", "h">>, <<"f", "i", "s", "h">> }

\* The text of a shebang line after the two characters
ShebangText(line) ==
    Trim(Slice(line, 2))

\* The interpreter a shebang names: the last segment of its first word
InterpreterName(shebang) ==
    Split(Split(shebang, " ")[1], "/")[Len(Split(Split(shebang, " ")[1], "/"))]

\* The step is a run of a script whose first non-blank line is a shebang line
RunsShebang ==
    /\ last'.op = "executeScript"
    /\ Truthy(readFile(TerminalFS, last'.arg))
    /\ LinesAt(last'.arg) # <<>>
    /\ StartsWith(LinesAt(last'.arg)[1], <<"#", "!">>)

\* The run was refused as a binary file, no line having been executed
RefusedAsBinary ==
    /\ ~last'.ret
    /\ last'.shown = << <<"b", "a", "s", "h", ":", " ">> \o last'.arg \o <<":", " ", "c", "a", "n", "n", "o", "t", " ", "e", "x", "e", "c", "u", "t", "e", " ", "b", "i", "n", "a", "r", "y", " ", "f", "i", "l", "e">> >>
    /\ root' = root
    /\ currentPath' = currentPath
    /\ environment' = environment

\* C22: if the first non-blank line of a script starts with #! and its text does
\* not mention a shell name, executeScript returns false before executing any
\* line; a shebang naming an interpreter that is not a shell is never accepted.
C22_ShebangRejected ==
    [][ (/\ RunsShebang
         /\ \/ \A name \in ShellNames :
                   ~Includes(ShebangText(LinesAt(last'.arg)[1]), name)
            \/ InterpreterName(ShebangText(LinesAt(last'.arg)[1])) \notin ShellNames)
        => RefusedAsBinary ]_vars

\* The node at scriptPath is a file
ResolvesToFile(fs, scriptPath) ==
    /\ getNode(fs, scriptPath).defined
    /\ getNode(fs, scriptPath).value.type = "file"

\* The run was refused at the read, no line having been executed
RefusedAtRead ==
    /\ ~last'.ret
    /\ last'.shown = << <<"b", "a", "s", "h", ":", " ">> \o last'.arg \o <<":", " ", "N", "o", " ", "s", "u", "c", "h", " ", "f", "i", "l", "e", " ", "o", "r", " ", "d", "i", "r", "e", "c", "t", "o", "r", "y">> >>
    /\ root' = root
    /\ currentPath' = currentPath
    /\ environment' = environment

\* C23: executeScript returns false without executing any line exactly when the
\* script path does not resolve to a file; a path that resolves to a file is
\* not rejected at the read.
C23_RejectedAtRead ==
    [][ last'.op = "executeScript"
        => (RefusedAtRead <=> ~ResolvesToFile(TerminalFS, last'.arg)) ]_vars

(***************************************************************************)
(* Blank lines at the prompt                                               *)
(***************************************************************************)

\* Lines that trim to nothing: the empty line, a space, spaces around a tab
BlankLines ==
    { <<>>, <<" ">>, <<" ", "	", " ">> }

InitPrompt ==
    /\ Constructed
    /\ last = [op |-> "start"]

NextPrompt ==
    \E input \in ShellLines \cup BlankLines : Dispatch(input)

SpecPrompt == InitPrompt /\ [][NextPrompt]_vars

\* C24: dispatching an empty or whitespace-only line returns a successful
\* result with exit code 0 without parsing, without invoking any handler and
\* without changing the tree, the current directory or the registry.
C24_BlankLine ==
    [][ (last'.op = "executeCommand" /\ Trim(last'.input) = <<>>)
        => /\ last'.result.defined
           /\ last'.result.value.success
           /\ last'.result.value.exitCode = 0
           /\ ~last'.result.value.output.defined
           /\ ~last'.result.value.error.defined
           /\ ~last'.parsed.defined
           /\ last'.invoked = "none"
           /\ last'.handler.kind = "none"
           /\ last'.log = <<>>
           /\ last'.shown = <<>>
           /\ root' = root
           /\ currentPath' = currentPath
           /\ commands' = commands
           /\ aliases' = aliases
           /\ environment' = environment ]_vars

\* The line of spaces around a tab was dispatched in ~/Documents, d having been
\* made in the home directory
C24_Witness ==
    /\ last.op = "executeCommand"
    /\ last.input = <<" ", "	", " ">>
    /\ last.result.value.success
    /\ currentPath = <<"~", "/", "D", "o", "c", "u", "m", "e", "n", "t", "s">>
    /\ exists([root |-> root, currentPath |-> <<"~">>, log |-> <<>>], <<"d">>)


(***************************************************************************)
(* The scanner and the parser on quotes, backslashes and script names      *)
(***************************************************************************)

\* A line of characters has at most this many characters
MaxChars == 4

\* The characters lines are made of: two letters, the space, the two quote
\* characters and the backslash
LexChars ==
    { "a", "b", " ", "\"", "'", "\\" }

CharLines ==
    UNION { [1..n -> LexChars] : n \in 0..MaxChars }

\* Longer lines, given in full
LexExamples ==
    { <<"e", "c", "h", "o", " ", "\"", "a", " ", "b", "\"", " ", "c">>, <<"e", "c", "h", "o", " ", "a", "\\", " ", "b">>, <<"\"", "a", "\\", "\"", "b", "\"", " ", "c">>, <<"a", " ", "\"", "\"", " ", "b">>, <<"a", " ", "'", "'", " ", "\"", "\"", " ">> }

\* First words of a line: script names behind ./, ./ alone, a quoted script
\* name with a space, and words that are not script names
FirstWords ==
    { <<".", "/", "d", "e", "p", "l", "o", "y", ".", "s", "h">>, <<".", "/", "a">>, <<".", "/">>, <<"\"", ".", "/", "a", " ", "b", "\"">>, <<"l", "s">>, <<".">>, <<".", "a", "/">> }

\* The words after the first
RestWords ==
    { <<"a", "r", "g", "2">>, <<"-", "x">>, <<">">>, <<"-", "-", "k", "=", "v">> }

\* A line has at most this many words after the first
MaxRest == 2

RestLists ==
    UNION { [1..n -> RestWords] : n \in 0..MaxRest }

WordLine(first, rest) ==
    Join(<<first>> \o rest, <<" ">>)

WordLines ==
    { WordLine(first, rest) : first \in FirstWords, rest \in RestLists }

LexLines ==
    CharLines \cup LexExamples \cup WordLines

InitLex ==
    /\ Constructed
    /\ last \in {[op |-> "input", input |-> line] : line \in LexLines}

NextLex ==
    \/ TokenizeLine
    \/ ParseLine

SpecLex == InitLex /\ [][NextLex]_vars

\* What parseInput gives for the words of rest after a first word that is not a
\* script name
PlainParse(rest) ==
    parseInput(WordLine(<<"x">>, rest))

\* The parse of a line whose first token is ./ and then name: the command is ./,
\* name is the first argument, and the rest is as after any other first word
ScriptParse(parsed, name, plain) ==
    /\ parsed.command = <<".", "/">>
    /\ parsed.args = <<name>> \o plain.args
    /\ parsed.flags = plain.flags
    /\ parsed.redirectToFile = plain.redirectToFile
    /\ parsed.redirectMode = plain.redirectMode

\* The parse of a line whose first token is ./ alone: no argument is added
BareParse(parsed, plain) ==
    /\ parsed.command = <<".", "/">>
    /\ parsed.args = plain.args
    /\ parsed.flags = plain.flags

\* C25: when the first token is ./ followed by at least one character, the
\* parsed command is the literal ./ and the rest of that token is the first
\* positional argument, before all arguments parsed from the remaining tokens;
\* ./deploy.sh arg2 parses to command ./, args [deploy.sh, arg2]; a first token
\* that is exactly ./ is left as the command with no argument added.
C25_ScriptName ==
    last.op = "parseInput"
        => /\ \A first \in FirstWords, rest \in RestLists :
                  last.input = WordLine(first, rest)
                      => \A token \in { tokenize(first)[1] } :
                             /\ (StartsWith(token, <<".", "/">>) /\ Len(token) > 2)
                                    => ScriptParse(last.parsed, Slice(token, 2), PlainParse(rest))
                             /\ token = <<".", "/">> => BareParse(last.parsed, PlainParse(rest))
           /\ last.input = <<".", "/", "d", "e", "p", "l", "o", "y", ".", "s", "h", " ", "a", "r", "g", "2">>
                  => /\ last.parsed.command = <<".", "/">>
                     /\ last.parsed.args = << <<"d", "e", "p", "l", "o", "y", ".", "s", "h">>, <<"a", "r", "g", "2">> >>

\* ./deploy.sh arg2 arg2 was parsed: deploy.sh is the first of three arguments
C25_Witness ==
    /\ last.op = "parseInput"
    /\ last.input = <<".", "/", "d", "e", "p", "l", "o", "y", ".", "s", "h", " ", "a", "r", "g", "2", " ", "a", "r", "g", "2">>
    /\ last.parsed.command = <<".", "/">>
    /\ last.parsed.args = << <<"d", "e", "p", "l", "o", "y", ".", "s", "h">>, <<"a", "r", "g", "2">>, <<"a", "r", "g", "2">> >>

\* What each character of a line is to the scanner, from 1-based k on: "SEP" for
\* a space that is neither escaped nor inside quotes, nothing for a backslash
\* that escapes and for a quote character that opens or closes a span, the
\* character itself otherwise.  quote is the character that opened the span the
\* scanner is in, "" outside a span.
RECURSIVE Marked(_, _, _, _)
Marked(input, k, escaped, quote) ==
    IF k > Len(input) THEN <<>>
    ELSE IF escaped THEN <<input[k]>> \o Marked(input, k + 1, FALSE, quote)
    ELSE IF input[k] = "\\" THEN Marked(input, k + 1, TRUE, quote)
    ELSE IF quote = "" /\ input[k] \in {"\"", "'"} THEN Marked(input, k + 1, FALSE, input[k])
    ELSE IF quote # "" /\ input[k] = quote THEN Marked(input, k + 1, FALSE, "")
    ELSE IF quote = "" /\ input[k] = " " THEN <<"SEP">> \o Marked(input, k + 1, FALSE, quote)
    ELSE <<input[k]>> \o Marked(input, k + 1, FALSE, quote)

\* The runs of characters between the separating spaces, the empty runs left out
Words(input) ==
    FilterNonEmpty(Split(Marked(input, 1, FALSE, ""), "SEP"))

\* C29: tokenize splits only on unescaped spaces outside quotes and never
\* copies the delimiting quote characters or the escaping backslash into a
\* token; echo "a b" c yields [echo, a b, c] and echo a\ b yields [echo, a b];
\* a backslash makes the next character literal also inside a quoted span, so
\* an escaped quote character inside quotes does not close the span.
C29_Tokens ==
    last.op = "tokenize"
        => /\ last.tokens = Words(last.input)
           /\ last.input = <<"e", "c", "h", "o", " ", "\"", "a", " ", "b", "\"", " ", "c">> => last.tokens = << <<"e", "c", "h", "o">>, <<"a", " ", "b">>, <<"c">> >>
           /\ last.input = <<"e", "c", "h", "o", " ", "a", "\\", " ", "b">> => last.tokens = << <<"e", "c", "h", "o">>, <<"a", " ", "b">> >>
           /\ last.input = <<"\"", "a", "\\", "\"", "b", "\"", " ", "c">> => last.tokens = << <<"a", "\"", "b">>, <<"c">> >>

\* The line "a\"b" c was scanned
C29_Witness ==
    /\ last.op = "tokenize"
    /\ last.input = <<"\"", "a", "\\", "\"", "b", "\"", " ", "c">>
    /\ last.tokens = << <<"a", "\"", "b">>, <<"c">> >>

\* C30: for every input line, no token returned by tokenize is the empty
\* string: runs of spaces, leading and trailing spaces, and an empty quoted
\* span standing alone all produce no token.
C30_NoEmptyToken ==
    last.op = "tokenize"
        => /\ \A i \in 1..Len(last.tokens) : last.tokens[i] # <<>>
           /\ (\A k \in 1..Len(last.input) : last.input[k] = " ") => last.tokens = <<>>
           /\ last.input \in { <<"\"", "\"">>, <<"'", "'">>, <<" ", "\"", "\"">>, <<"'", "'", " ">> } => last.tokens = <<>>
           /\ last.input = <<"a", " ", "\"", "\"", " ", "b">> => last.tokens = << <<"a">>, <<"b">> >>

\* The line a "" b was scanned
C30_Witness ==
    /\ last.op = "tokenize"
    /\ last.input = <<"a", " ", "\"", "\"", " ", "b">>
    /\ Len(last.tokens) = 2

(***************************************************************************)
(* The stored tree: saveToStorage and loadFromStorage                      *)
(*                                                                         *)
(* Serialized data is what JSON.stringify writes and JSON.parse reads      *)
(* back: a property whose value is undefined is left out and reads as      *)
(* undefined, so a field that may be undefined is the same Option on both  *)
(* sides.  The children of serialized data are an array of [key, data]     *)
(* pairs, a sequence of 2-tuples, where a node has a Map.                  *)
(***************************************************************************)

RECURSIVE serializeNode(_)
RECURSIVE serializeEntries(_)
serializeNode(node) ==
    [name |-> node.name,
     type |-> node.type,
     content |-> node.content,
     size |-> node.size,
     children |-> IF node.children.defined
                  THEN Some(serializeEntries(node.children.value))
                  ELSE Undefined]

\* Array.from(node.children.entries()).map(([key, child]) => [key, serializeNode(child)])
serializeEntries(entries) ==
    IF entries = <<>> THEN <<>>
    ELSE << <<entries[1].key, serializeNode(entries[1].node)>> >>
             \o serializeEntries(Tail(entries))

RECURSIVE deserializeNodeReversed(_)
RECURSIVE deserializeEntriesReversed(_, _)
\* deserializeNode putting each child before those it has already read
deserializeNodeReversed(data) ==
    [name |-> data.name,
     type |-> data.type,
     content |-> data.content,
     size |-> data.size,
     children |-> IF data.children.defined
                  THEN Some(deserializeEntriesReversed(data.children.value, <<>>))
                  ELSE Undefined]

deserializeEntriesReversed(pairs, entries) ==
    IF pairs = <<>> THEN entries
    ELSE deserializeEntriesReversed(
             Tail(pairs),
             <<[key |-> pairs[1][1], node |-> deserializeNodeReversed(pairs[1][2])]>>
                 \o EntriesDelete(entries, pairs[1][1]))

RECURSIVE deserializeNode(_)
RECURSIVE deserializeEntries(_, _)
\* if (data.children) is true of every array, the empty one too
deserializeNode(data) ==
    [name |-> data.name,
     type |-> data.type,
     content |-> data.content,
     size |-> data.size,
     children |-> IF data.children.defined
                  THEN Some(deserializeEntries(data.children.value, <<>>))
                  ELSE Undefined]

\* for (const [key, childData] of data.children) node.children.set(key, ...)
deserializeEntries(pairs, entries) ==
    IF pairs = <<>> THEN entries
    ELSE deserializeEntries(Tail(pairs),
                            EntriesSet(entries, pairs[1][1], deserializeNode(pairs[1][2])))

\* What saveToStorage stores (the home directory, which is not read back, left out)
saveToStorage(fs) ==
    [root |-> serializeNode(fs.root), currentPath |-> fs.currentPath]

\* loadFromStorage on stored data: this.root and this.currentPath
loadFromStorage(data) ==
    [root |-> deserializeNode(data.root),
     currentPath |-> IF data.currentPath # <<>> THEN data.currentPath ELSE <<"~">>,
     log |-> <<>>]

\* A new VirtualFileSystem over the storage the terminal's file system has
\* written: every operation that changes the tree or the current directory ends
\* with saveToStorage, so the storage holds the present state (before the first
\* of them it holds nothing and the constructor keeps the initial structure,
\* which is the present state too).
Reload ==
    \E done \in { loadFromStorage(saveToStorage(TerminalFS)) } :
        /\ root' = done.root
        /\ currentPath' = done.currentPath
        /\ last' = [op |-> "loadFromStorage"]
        /\ UNCHANGED <<commands, aliases, environment, history, loop>>

\* resolvePath(path), called on the file system
ResolvePath(path) ==
    /\ last' = [op |-> "resolvePath", arg |-> path, ret |-> resolvePath(TerminalFS, path)]
    /\ UNCHANGED <<root, currentPath, commands, aliases, environment, history, loop>>

\* Names given to createFile, createDirectory, writeFile and deleteNode
StoreNames ==
    { <<"d">>, <<"a", "/", "b">> }

\* Paths given to setCurrentDirectory
StorePaths ==
    { <<"~">>, <<".", ".">>, <<"D", "o", "c", "u", "m", "e", "n", "t", "s">>, <<"/">> }

\* Paths that start with a slash
AbsolutePaths ==
    { <<"/">>, <<"/", "h", "o", "m", "e">>, <<"/", "h", "o", "m", "e", "/", "u", "s", "e", "r", "/", "D", "o", "c", "u", "m", "e", "n", "t", "s">>, <<"/", "h", "o", "m", "e", "/", "u", "s", "e", "r", "/">>, <<"/", "h", "o", "m", "e", "/", ".", ".", "/", "x">>,
      <<"/", ".", "/", "d">>, <<"/", "/">>, <<"/", "~">> }

\* Paths given to resolvePath
ResolvedPaths ==
    AbsolutePaths \cup { <<"~">>, <<"~", "/", "d">>, <<".">>, <<".", ".">>, <<".", ".", "/", "d">>, <<"d">> }

InitStore ==
    /\ Constructed
    /\ last = [op |-> "start"]

NextStore ==
    \/ \E path \in StorePaths : SetCurrentDirectory(path)
    \/ \E name \in StoreNames, content \in FSContents : CreateFile(name, content)
    \/ \E name \in StoreNames : CreateDirectory(name)
    \/ \E name \in StoreNames, recursive \in BOOLEAN : DeleteNode(name, recursive)
    \/ \E name \in StoreNames, content \in FSContents : WriteFile(name, content)
    \/ \E path \in ResolvedPaths : ResolvePath(path)
    \/ Reload

SpecStore == InitStore /\ [][NextStore]_vars

\* The sequences of keys that lead from node to a node of its subtree
RECURSIVE Locations(_)
Locations(node) ==
    {<<>>} \cup
        (IF node.children.defined
         THEN UNION { { <<node.children.value[k].key>> \o loc :
                            loc \in Locations(node.children.value[k].node) } :
                      k \in 1..Len(node.children.value) }
         ELSE {})

\* The absolute paths that resolve to a node of the tree
ExistingPaths(fs) ==
    { path \in { <<"/">> \o Join(loc, <<"/">>) : loc \in Locations(fs.root) } :
          getNodeByPath(fs, path).defined }

\* Array.from(children.values())
RECURSIVE NodesOf(_)
NodesOf(entries) ==
    IF entries = <<>> THEN <<>> ELSE <<entries[1].node>> \o NodesOf(Tail(entries))

\* name, kind, content and size of the entries of a listing, in its order
RECURSIVE Listed(_)
Listed(nodes) ==
    IF nodes = <<>> THEN <<>>
    ELSE <<[name |-> nodes[1].name, type |-> nodes[1].type,
            content |-> nodes[1].content, size |-> nodes[1].size]>>
             \o Listed(Tail(nodes))

\* C26: serializing the tree and deserializing the result yields a tree in
\* which every path that existed before still exists and listDirectory at every
\* directory returns entries equal in name, kind, content and size, in the same
\* order, to those of the original tree; files come back without a children
\* field.
C26_RoundTrip ==
    [][ last'.op = "loadFromStorage"
        => /\ \A path \in ExistingPaths(TerminalFS) :
                  /\ getNodeByPath(TerminalFSAfter, path).defined
                  /\ getNodeByPath(TerminalFSAfter, path).value.type
                         = getNodeByPath(TerminalFS, path).value.type
                  /\ Listed(listDirectory(TerminalFSAfter, path))
                         = Listed(listDirectory(TerminalFS, path))
                  /\ getNodeByPath(TerminalFS, path).value.children.defined
                         => Listed(NodesOf(getNodeByPath(TerminalFSAfter, path).value.children.value))
                                = Listed(NodesOf(getNodeByPath(TerminalFS, path).value.children.value))
                  /\ getNodeByPath(TerminalFSAfter, path).value.type = "file"
                         => ~getNodeByPath(TerminalFSAfter, path).value.children.defined
           /\ ExistingPaths(TerminalFSAfter) = ExistingPaths(TerminalFS)
           /\ currentPath' = currentPath ]_vars

\* The tree was read back in ~/Documents, the home directory holding the file d
\* with a content
C26_Witness ==
    /\ last.op = "loadFromStorage"
    /\ currentPath = <<"~", "/", "D", "o", "c", "u", "m", "e", "n", "t", "s">>
    /\ readFile([root |-> root, currentPath |-> <<"~">>, log |-> <<>>], <<"d">>).defined
    /\ Truthy(readFile([root |-> root, currentPath |-> <<"~">>, log |-> <<>>], <<"d">>))

\* C27: resolvePath(p) returns p unchanged for every p that starts with /,
\* whatever the current directory is, so resolving a resolved absolute path
\* again changes nothing.
C27_AbsoluteUnchanged ==
    /\ \A path \in AbsolutePaths :
           /\ resolvePath(TerminalFS, path) = path
           /\ resolvePath(TerminalFS, resolvePath(TerminalFS, path)) = resolvePath(TerminalFS, path)
    /\ (last.op = "resolvePath" /\ StartsWith(last.arg, <<"/">>)) => last.ret = last.arg

\* /home/../x was resolved in the root directory
C27_Witness ==
    /\ last.op = "resolvePath"
    /\ last.arg = <<"/", "h", "o", "m", "e", "/", ".", ".", "/", "x">>
    /\ last.ret = <<"/", "h", "o", "m", "e", "/", ".", ".", "/", "x">>
    /\ currentPath = <<"/">>

\* No name in the subtree of node contains a slash, and every key of a children
\* map is the name of the node under it
RECURSIVE WellNamed(_)
WellNamed(node) ==
    /\ ~Includes(node.name, <<"/">>)
    /\ node.children.defined
           => \A k \in 1..Len(node.children.value) :
                  /\ node.children.value[k].key = node.children.value[k].node.name
                  /\ WellNamed(node.children.value[k].node)

\* C28: in every reachable state no node has a name containing /, and every key
\* of a directory's children map equals the name of the node stored under it.
C28_NamesWithoutSlash ==
    WellNamed(root)

(***************************************************************************)
(* Lines that end inside a quote or behind a backslash                     *)
(***************************************************************************)

\* Where a line leaves the scanner, reading from 1-based k on: behind a
\* backslash that escapes nothing (escaped), inside a span opened by the quote
\* character at 1-based openAt (quote is that character, "" and 0 outside a
\* span)
RECURSIVE Ending(_, _, _, _, _)
Ending(input, k, escaped, quote, openAt) ==
    IF k > Len(input) THEN [escaped |-> escaped, quote |-> quote, openAt |-> openAt]
    ELSE IF escaped THEN Ending(input, k + 1, FALSE, quote, openAt)
    ELSE IF input[k] = "\\" THEN Ending(input, k + 1, TRUE, quote, openAt)
    ELSE IF quote = "" /\ input[k] \in {"\"", "'"} THEN Ending(input, k + 1, FALSE, input[k], k)
    ELSE IF quote # "" /\ input[k] = quote THEN Ending(input, k + 1, FALSE, "", 0)
    ELSE Ending(input, k + 1, FALSE, quote, openAt)

\* The characters a run inside an open span stands for: each backslash gone,
\* the character behind it kept
RECURSIVE Literal(_, _)
Literal(s, k) ==
    IF k > Len(s) THEN <<>>
    ELSE IF s[k] = "\\"
    THEN (IF k + 1 <= Len(s) THEN <<s[k + 1]>> \o Literal(s, k + 2) ELSE <<>>)
    ELSE <<s[k]>> \o Literal(s, k + 1)

\* A string made of characters of the line
IsTextOf(s, input) ==
    /\ DOMAIN s = 1..Len(s)
    /\ \A i \in 1..Len(s) : \E k \in 1..Len(input) : s[i] = input[k]

\* A result of parseInput: every property of the declared type has a value of
\* its type
IsParsed(parsed, input) ==
    /\ DOMAIN parsed = {"command", "args", "flags", "redirectToFile", "redirectMode"}
    /\ IsTextOf(parsed.command, input)
    /\ DOMAIN parsed.args = 1..Len(parsed.args)
    /\ \A i \in 1..Len(parsed.args) : IsTextOf(parsed.args[i], input)
    /\ \A f \in DOMAIN parsed.flags :
           /\ IsTextOf(f, input)
           /\ parsed.flags[f].kind \in {"boolean", "string"}
           /\ IsTextOf(parsed.flags[f].value, input)
    /\ parsed.redirectMode \in {"undefined", "write", "append"}
    /\ parsed.redirectToFile.defined <=> parsed.redirectMode # "undefined"
    /\ parsed.redirectToFile.defined => IsTextOf(parsed.redirectToFile.value, input)

AllButLast(s) ==
    SubSeq(s, 1, Len(s) - 1)

\* The tokens of a line that ends inside a span opened at openAt: what was read
\* before the opening quote, the last token continued by the characters behind
\* it
FlushedOpen(input, tokens, openAt) ==
    \A acc \in { Literal(SubSeq(input, openAt + 1, Len(input)), 1) } :
    \A before \in { tokenize(SubSeq(input, 1, openAt - 1) \o <<"x">>) } :
        IF acc = <<>>
        THEN tokens = tokenize(SubSeq(input, 1, openAt - 1))
        ELSE /\ tokens # <<>>
             /\ AllButLast(tokens) = AllButLast(before)
             /\ tokens[Len(tokens)] = AllButLast(before[Len(before)]) \o acc

\* C31: tokenizing and parsing are total: for every input line, including one
\* that ends inside an open quote or with a pending backslash, parseInput
\* returns a result and raises nothing; with an unterminated quote the
\* characters accumulated since the opening quote are flushed as (part of) the
\* last token.
C31_Total ==
    /\ last.op = "tokenize"
           => /\ DOMAIN last.tokens = 1..Len(last.tokens)
              /\ \A i \in 1..Len(last.tokens) : IsTextOf(last.tokens[i], last.input)
              /\ \A end \in { Ending(last.input, 1, FALSE, "", 0) } :
                     /\ end.escaped => last.tokens = tokenize(AllButLast(last.input))
                     /\ end.quote # "" => FlushedOpen(last.input, last.tokens, end.openAt)
    /\ last.op = "parseInput"
           => /\ IsParsed(last.parsed, last.input)
              /\ Ending(last.input, 1, FALSE, "", 0).escaped
                     => last.parsed = parseInput(AllButLast(last.input))

\* The line a"b followed by a space was scanned: it ends inside the quote, and
\* the one token is ab followed by the space
C31_Witness ==
    /\ last.op = "tokenize"
    /\ last.input = <<"a", "\"", "b", " ">>
    /\ Ending(last.input, 1, FALSE, "", 0).quote = "\""
    /\ last.tokens = << <<"a", "b", " ">> >>

(***************************************************************************)
(* Display paths: normalizeDisplayPath, getAbsolutePath and pwd            *)
(***************************************************************************)

\* An absolute path has at most this many segments
MaxSegments == 3

\* The segments absolute paths are made of; the empty segment gives doubled and
\* trailing slashes
PathSegments ==
    { <<"h", "o", "m", "e">>, <<"u", "s", "e", "r">>, <<"D", "o", "c", "u", "m", "e", "n", "t", "s">>, <<>>, <<".", ".">> }

\* Absolute paths: / followed by segments joined by /, and two paths that
\* begin with the letters of home without lying under it
DisplayedPaths ==
    { <<"/">> \o Join(segments, <<"/">>) :
          segments \in UNION { [1..n -> PathSegments] : n \in 0..MaxSegments } }
        \cup { <<"/", "h", "o", "m", "e", "/", "u", "s", "e", "r", "n", "a", "m", "e">>, <<"/", "h", "o", "m", "e", "/", "u", "s", "e", "r", "2", "/", "D", "o", "c", "u", "m", "e", "n", "t", "s">> }

\* Paths given to setCurrentDirectory
VisitedPaths ==
    { <<"~">>, <<".", ".">>, <<".">>, <<"D", "o", "c", "u", "m", "e", "n", "t", "s">>, <<"/">>, <<"/", "h", "o", "m", "e">>, <<"/", "h", "o", "m", "e", "/", "u", "s", "e", "r", "/">>, <<"~", "/", "D", "o", "c", "u", "m", "e", "n", "t", "s">>,
      <<"/", "h", "o", "m", "e", "/", "u", "s", "e", "r", "/", "D", "o", "c", "u", "m", "e", "n", "t", "s">>, <<".", ".", "/", "u", "s", "e", "r">>, <<"/", "h", "o", "m", "e", "/", "/", "u", "s", "e", "r">>, <<"~", "/">>, <<"r", "e", "a", "d", "m", "e", ".", "t", "x", "t">>, <<"n", "o", "d", "i", "r">> }

PwdLine == <<"p", "w", "d">>

\* normalizeDisplayPath(absolutePath), and getAbsolutePath of what it returns
NormalizeDisplayPath(absolutePath) ==
    \E shown \in { normalizeDisplayPath(absolutePath) } :
        /\ last' = [op |-> "normalizeDisplayPath", arg |-> absolutePath, ret |-> shown,
                    back |-> getAbsolutePath(shown)]
        /\ UNCHANGED <<root, currentPath, commands, aliases, environment, history, loop>>

InitPath ==
    /\ Constructed
    /\ last = [op |-> "start"]

NextPath ==
    \/ \E absolutePath \in DisplayedPaths : NormalizeDisplayPath(absolutePath)
    \/ \E path \in VisitedPaths : SetCurrentDirectory(path)
    \/ Dispatch(PwdLine)

SpecPath == InitPath /\ [][NextPath]_vars

InTildeForm(path) ==
    path = <<"~">> \/ StartsWith(path, <<"~", "/">>)

UnderHome(absolutePath) ==
    \/ absolutePath = HomeDirectory
    \/ /\ Len(absolutePath) > Len(HomeDirectory)
       /\ SubSeq(absolutePath, 1, Len(HomeDirectory) + 1) = HomeDirectory \o <<"/">>

\* What the line pwd prints in the state an action leaves
PwdAfter ==
    executeCommand([commands |-> commands', aliases |-> aliases'], TerminalFSAfter,
                   environment', PwdLine).result.value.output.value

\* C32: display-path collapsing is the inverse of tilde expansion: for every
\* absolute path p, getAbsolutePath(normalizeDisplayPath(p)) = p, and
\* normalizeDisplayPath(p) is in ~ form exactly when p equals home or lies
\* under home followed by /; consequently after a successful
\* setCurrentDirectory(q), pwd reports resolvePath(q) as computed before the
\* change.
C32_DisplayInverse ==
    /\ [](last.op = "normalizeDisplayPath"
              => /\ last.back = last.arg
                 /\ InTildeForm(last.ret) <=> UnderHome(last.arg))
    /\ [][ (last'.op = "setCurrentDirectory" /\ last'.ret)
               => PwdAfter = << resolvePath(TerminalFS, last'.arg) >> ]_vars
    /\ [](last.op = "executeCommand"
              => /\ last.result.value.success
                 /\ last.result.value.output.value = << getAbsolutePath(currentPath) >>)

\* From the Documents directory, setCurrentDirectory("../user") has succeeded,
\* and the current path is the collapsed ~
C32_Witness ==
    /\ last.op = "setCurrentDirectory"
    /\ last.arg = <<".", ".", "/", "u", "s", "e", "r">>
    /\ last.ret
    /\ currentPath = <<"~">>


(***************************************************************************)
(* Nodes: size, content and children under the calls that write            *)
(***************************************************************************)

\* Names given to createFile, createDirectory, deleteNode and writeFile: a bare
\* name and a path with a slash
NodeNames ==
    { <<"f">>, <<"D", "o", "c", "u", "m", "e", "n", "t", "s", "/", "f">> }

\* Contents given to createFile and writeFile
NodeContents ==
    { <<>>, <<"a", "b">> }

\* Paths given to setCurrentDirectory
NodePaths ==
    { <<"~">>, <<"D", "o", "c", "u", "m", "e", "n", "t", "s">> }

\* Lines with a redirection in write and in append mode
NodeLines ==
    { <<"e", "c", "h", "o", " ", "h", "i", " ", ">", " ", "f">>, <<"e", "c", "h", "o", " ", "h", "i", " ", ">", ">", " ", "f">>, <<"e", "c", "h", "o", " ", "h", "i", " ", ">", " ", "D", "o", "c", "u", "m", "e", "n", "t", "s", "/", "f">> }

\* writeFile(name, content); last keeps the content that was given
WriteContent(name, content) ==
    \E done \in { writeFile(TerminalFS, name, content) } :
        /\ NodeCount(done.fs.root) <= NodeCount(InitialRoot) + MaxCreated
        /\ root' = done.fs.root
        /\ currentPath' = done.fs.currentPath
        /\ last' = [op |-> "writeFile", arg |-> name, content |-> content,
                    ret |-> done.ret, log |-> done.fs.log]
        /\ UNCHANGED <<commands, aliases, environment, history, loop>>

InitNodes ==
    /\ Constructed
    /\ last = [op |-> "start"]

NextNodes ==
    \/ \E path \in NodePaths : SetCurrentDirectory(path)
    \/ \E name \in NodeNames, content \in NodeContents : CreateFile(name, content)
    \/ \E name \in NodeNames : CreateDirectory(name)
    \/ \E name \in NodeNames, recursive \in BOOLEAN : DeleteNode(name, recursive)
    \/ \E name \in NodeNames, content \in NodeContents : WriteContent(name, content)
    \/ \E input \in NodeLines : Dispatch(input)

SpecNodes == InitNodes /\ [][NextNodes]_vars

\* Every file of the subtree has the length of its content as its size, every
\* directory the size 0
RECURSIVE Sized(_)
Sized(node) ==
    /\ node.type = "file" => node.content.defined /\ node.size = Len(node.content.value)
    /\ node.type = "directory" => node.size = 0
    /\ node.children.defined
           => \A k \in 1..Len(node.children.value) : Sized(node.children.value[k].node)

\* C33: in every reachable state each File node's size equals the length of
\* its content and each Directory node's size is 0, after any sequence of
\* createFile, createDirectory, writeFile (overwrite or create), redirection in
\* write or append mode, and deleteNode.
C33_Sizes ==
    Sized(root)

\* The file f of the home directory holds two appended lines, five characters
C33_Witness ==
    /\ last.op = "executeCommand"
    /\ last.parsed.value.redirectMode = "append"
    /\ readFile([root |-> root, currentPath |-> <<"~">>, log |-> <<>>], <<"f">>) = Some(<<"h", "i", "\n", "h", "i">>)
    /\ getNode([root |-> root, currentPath |-> <<"~">>, log |-> <<>>], <<"f">>).value.size = 5

\* Every file of the subtree has a content and no children, every directory
\* has children and no content
RECURSIVE Shaped(_)
Shaped(node) ==
    /\ node.type = "file" => node.content.defined /\ ~node.children.defined
    /\ node.type = "directory" => node.children.defined /\ ~node.content.defined
    /\ node.children.defined
           => \A k \in 1..Len(node.children.value) : Shaped(node.children.value[k].node)

\* C34: node kind determines which payload field exists: in every reachable
\* state a File node has a content field and no children field, and a
\* Directory node has a children map and no content field.
C34_PayloadByKind ==
    Shaped(root)

\* The file with content at the place that path designates, in the state an
\* action leaves: what readFile(path) returns, and the node at the end of the
\* path as resolved before the action
WrittenAt(path, content) ==
    /\ readFile(TerminalFSAfter, path) = Some(content)
    /\ \A node \in { getNodeByPath(TerminalFSAfter, resolvePath(TerminalFS, path)) } :
           /\ node.defined
           /\ node.value.type = "file"
           /\ node.value.content = Some(content)

\* The step is a dispatch whose write redirection succeeded
RedirectedWrite ==
    /\ last'.op = "executeCommand"
    /\ last'.parsed.defined
    /\ last'.parsed.value.redirectMode = "write"
    /\ last'.handler.kind = "result"
    /\ last'.result = Some(BareSuccess)
    /\ \E i \in DOMAIN last'.log : last'.log[i].call = "writeFile" /\ last'.log[i].ret

\* C35: write/read round trip for every path form: whenever writeFile(p, c)
\* returns true (p a bare name or a path containing /, and likewise for a
\* redirection > p that reports success), readFile(p) immediately afterwards
\* returns c, and the file is located in the directory that p designates.
C35_WriteThenRead ==
    [][ /\ (last'.op = "writeFile" /\ last'.ret)
            => WrittenAt(last'.arg, last'.content)
        /\ RedirectedWrite
            => WrittenAt(last'.parsed.value.redirectToFile.value,
                         Join(last'.handler.result.output.value, <<"\n">>)) ]_vars

(***************************************************************************)
(* What unregisterCommand leaves of the other commands                     *)
(***************************************************************************)

RegistryAfter ==
    [commands |-> commands', aliases |-> aliases']

\* getCommand(name) returns the same before and after the step
SameCommand(name) ==
    getCommand(RegistryAfter, name) = getCommand(Registry, name)

\* C36: unregisterCommand(n) affects only n: for every other command m that is
\* still registered, getCommand(m.name) and getCommand(a) for each alias a that
\* currently points to m return the same command before and after the call
\* (also when n's descriptor lists an alias that was later re-registered by m).
C36_OthersUntouched ==
    [][ last'.op = "unregisterCommand"
            => \A m \in (DOMAIN commands') \ { ToLowerCase(last'.name) } :
                   /\ SameCommand(commands[m].name)
                   /\ \A a \in DOMAIN aliases : aliases[a] = m => SameCommand(a) ]_vars

(***************************************************************************)
(* Scripts without an executable line                                      *)
(***************************************************************************)

\* The lines a script is built from: the empty line, a line of spaces, a
\* comment, two shebang lines that name a shell, and two commands
QuietLineSet ==
    { <<>>, <<" ", " ">>, <<"#", " ", "n", "o", "t", "e">>, <<"#", "!", "/", "b", "i", "n", "/", "b", "a", "s", "h">>, <<"#", "!", "/", "b", "i", "n", "/", "s", "h", " ", "-", "e">>, <<"c", "d", " ", "D", "o", "c", "u", "m", "e", "n", "t", "s">>, <<"e", "x", "p", "o", "r", "t", " ", "A", "=", "b">> }

NextQuiet ==
    \/ \E line \in QuietLineSet : AppendLine(line)
    \/ EmptyScript
    \/ \E path \in ScriptPaths : RunScript(path)
    \/ SetCurrentDirectory(<<"~">>)

SpecQuiet == InitScript /\ [][NextQuiet]_vars

\* No line of the text is a command: each is blank or a comment, and a first
\* line that is a shebang names a shell
NoExecutableLine(text) ==
    \A lines \in { Split(text, "\n") } :
        /\ \A k \in 1..Len(lines) :
               Trim(lines[k]) = <<>> \/ StartsWith(Trim(lines[k]), <<"#">>)
        /\ \A shown \in { FilterNonBlank(lines) } :
               (shown # <<>> /\ StartsWith(shown[1], <<"#", "!">>))
                   => InterpreterName(ShebangText(shown[1])) \in ShellNames

\* C37: a script file that exists but has no executable line (empty content,
\* only blank lines, or only comment lines, with or without an accepted
\* shebang) runs successfully: executeScript returns true, and the
\* environment, current directory and tree are unchanged.
C37_QuietScript ==
    [][ (/\ last'.op = "executeScript"
         /\ ResolvesToFile(TerminalFS, last'.arg)
         /\ NoExecutableLine(getNode(TerminalFS, last'.arg).value.content.value))
        => /\ last'.ret
           /\ last'.shown = <<>>
           /\ root' = root
           /\ currentPath' = currentPath
           /\ environment' = environment ]_vars

(***************************************************************************)
(* PWD in the environment                                                  *)
(***************************************************************************)

\* The lines typed: two that append the lines cd Documents and echo $PWD to
\* script.sh, the run of the script, and two cd lines
EnvLines ==
    { <<"e", "c", "h", "o", " ", "c", "d", " ", "D", "o", "c", "u", "m", "e", "n", "t", "s", " ", ">", ">", " ", "s", "c", "r", "i", "p", "t", ".", "s", "h">>, <<"e", "c", "h", "o", " ", "e", "c", "h", "o", " ", "$", "P", "W", "D", " ", ">", ">", " ", "s", "c", "r", "i", "p", "t", ".", "s", "h">>, <<"b", "a", "s", "h", " ", "s", "c", "r", "i", "p", "t", ".", "s", "h">>,
      <<"c", "d", " ", "D", "o", "c", "u", "m", "e", "n", "t", "s">>, <<"c", "d", " ", ".", ".">> }

NextEnv ==
    \/ \E input \in EnvLines : KeyEnter(input)
    \/ RunTask
    \/ RunJob

SpecEnv == InitLoop /\ [][NextEnv]_vars

PwdName == <<"P", "W", "D">>

EchoPwdLine == <<"e", "c", "h", "o", " ", "$", "P", "W", "D">>

\* The first line of lines that is neither blank nor a comment, trimmed; the
\* empty string if there is none
RECURSIVE FirstCommandLine(_)
FirstCommandLine(lines) ==
    IF lines = <<>> THEN <<>>
    ELSE IF Trim(lines[1]) = <<>> \/ StartsWith(Trim(lines[1]), <<"#">>)
    THEN FirstCommandLine(Tail(lines))
    ELSE Trim(lines[1])

\* The step resumes a script whose next command line is echo $PWD
RunsEchoPwd ==
    /\ loop.jobs # <<>>
    /\ Head(loop.jobs).frame.at = "line"
    /\ Head(loop.jobs).frame.ret
    /\ FirstCommandLine(Head(loop.jobs).frame.rest) = EchoPwdLine
    /\ last'.op = "job"
    /\ last'.at = "line"

\* C38: whenever a command or a script line reads the environment, PWD equals
\* the absolute form of the current working path: this holds after every
\* completed top-level dispatch and also for script lines that run after a
\* successful cd earlier in the same script (cd Documents then echo $PWD
\* prints the new directory).
C38_PwdFollows ==
    /\ [](loop.active = {}
              => /\ MapHas(environment, PwdName)
                 /\ environment[PwdName] = getAbsolutePath(currentPath))
    /\ [][ RunsEchoPwd
               => /\ environment[PwdName] = getAbsolutePath(currentPath)
                  /\ last'.shown = << getAbsolutePath(currentPath) >> ]_vars


(***************************************************************************)
(* TerminalHistory under calls of its methods                              *)
(*                                                                         *)
(* The variable history is [history, currentIndex]; currentIndex is the    *)
(* 0-based index of the source, so history[currentIndex] of the source is  *)
(* h.history[h.currentIndex + 1] here.  The history is constructed with    *)
(* maxSize = HistoryMaxSize.  last carries, besides the call and what it   *)
(* returned, three observations: submitted, the commands given to add      *)
(* since the history was last cleared; run, the number of getPrevious      *)
(* calls in a row since the last Enter (-1 when another call came          *)
(* between); stored, whether the history has been saved.                   *)
(***************************************************************************)

\* new TerminalHistory(maxSize)
HistoryMaxSize == 2

\* add is called at most this many times between two calls of clear
MaxAdds == 4

\* The lines given to add: two commands and a blank line
HistoryLines ==
    { <<"a">>, <<"b">>, <<" ">> }

\* add pushing a command that repeats the last entry
addKeepingRepeats(h, command, maxSize) ==
    IF Trim(command) = <<>> THEN h
    ELSE IF Len(h.history) + 1 > maxSize
    THEN [history |-> Tail(Append(h.history, command)), currentIndex |-> Len(h.history)]
    ELSE [history |-> Append(h.history, command), currentIndex |-> Len(h.history) + 1]

\* TerminalHistory.add(command) of a history constructed with maxSize
add(h, command, maxSize) ==
    IF Trim(command) = <<>> THEN h
    ELSE IF Len(h.history) > 0 /\ h.history[Len(h.history)] = command THEN h
    ELSE IF Len(h.history) + 1 > maxSize
    THEN [history |-> Tail(Append(h.history, command)), currentIndex |-> Len(h.history)]
    ELSE [history |-> Append(h.history, command), currentIndex |-> Len(h.history) + 1]

\* this.history[index]: undefined outside the array
historyGet(h, index) ==
    IF index >= 0 /\ index < Len(h.history) THEN Some(h.history[index + 1]) ELSE Undefined

\* getPrevious stepping back from the oldest entry too
getPreviousPastOldest(h) ==
    IF h.currentIndex >= 0
    THEN [h |-> [h EXCEPT !.currentIndex = @ - 1], ret |-> historyGet(h, h.currentIndex - 1)]
    ELSE [h |-> h, ret |-> Undefined]

\* TerminalHistory.getPrevious(): [h, ret]
getPrevious(h) ==
    IF h.currentIndex > 0
    THEN [h |-> [h EXCEPT !.currentIndex = @ - 1], ret |-> historyGet(h, h.currentIndex - 1)]
    ELSE [h |-> h, ret |-> Undefined]

\* TerminalHistory.getNext(): [h, ret]
getNext(h) ==
    IF h.currentIndex < Len(h.history) - 1
    THEN [h |-> [h EXCEPT !.currentIndex = @ + 1], ret |-> historyGet(h, h.currentIndex + 1)]
    ELSE [h |-> [h EXCEPT !.currentIndex = Len(h.history)], ret |-> Some(<<>>)]

\* TerminalHistory.clear()
clear(h) ==
    [history |-> <<>>, currentIndex |-> -1]

\* loadFromStorage() of a new TerminalHistory: stored tells whether an item
\* has been saved, entries is what was saved last
historyLoad(stored, entries) ==
    IF stored THEN [history |-> entries, currentIndex |-> Len(entries)]
    ELSE StartHistory

Called(op, arg, ret, submitted, inRow, stored) ==
    [op |-> op, arg |-> arg, ret |-> ret, submitted |-> submitted, run |-> inRow,
     stored |-> stored]

\* history.add(command)
Add(command) ==
    /\ Len(last.submitted) < MaxAdds
    /\ history' = add(history, command, HistoryMaxSize)
    /\ last' = Called("add", command, Undefined, Append(last.submitted, command), -1,
                      last.stored \/ history' # history)
    /\ UNCHANGED <<root, currentPath, commands, aliases, environment, loop>>

\* history.add(command); history.resetIndex(): the calls that handleEnter
\* makes on the history for the line command
AddThenReset(command) ==
    /\ Len(last.submitted) < MaxAdds
    /\ history' = resetIndex(add(history, command, HistoryMaxSize))
    /\ last' = Called("enter", command, Undefined, Append(last.submitted, command), 0,
                      last.stored \/ history'.history # history.history)
    /\ UNCHANGED <<root, currentPath, commands, aliases, environment, loop>>

\* history.clear()
Clear ==
    /\ history' = clear(history)
    /\ last' = Called("clear", <<>>, Undefined, <<>>, -1, TRUE)
    /\ UNCHANGED <<root, currentPath, commands, aliases, environment, loop>>

\* history.getPrevious(), the call of handleArrowUp
GetPrevious ==
    \E done \in { getPrevious(history) } :
        /\ history' = done.h
        /\ last' = Called("getPrevious", <<>>, done.ret, last.submitted,
                          IF last.run < 0 THEN -1
                          ELSE IF last.run > HistoryMaxSize THEN last.run
                          ELSE last.run + 1,
                          last.stored)
        /\ UNCHANGED <<root, currentPath, commands, aliases, environment, loop>>

\* history.getNext(), the call of handleArrowDown
GetNext ==
    \E done \in { getNext(history) } :
        /\ history' = done.h
        /\ last' = Called("getNext", <<>>, done.ret, last.submitted, -1, last.stored)
        /\ UNCHANGED <<root, currentPath, commands, aliases, environment, loop>>

\* The page is loaded again: a new TerminalHistory reads what was saved
Reopen ==
    /\ history' = historyLoad(last.stored, history.history)
    /\ last' = Called("loadFromStorage", <<>>, Undefined, last.submitted, -1, last.stored)
    /\ UNCHANGED <<root, currentPath, commands, aliases, environment, loop>>

InitHistory ==
    /\ Constructed
    /\ last = Called("start", <<>>, Undefined, <<>>, -1, FALSE)

NextHistory ==
    \/ \E command \in HistoryLines : Add(command)
    \/ \E command \in HistoryLines : AddThenReset(command)
    \/ Clear
    \/ GetPrevious
    \/ GetNext
    \/ Reopen

SpecHistory == InitHistory /\ [][NextHistory]_vars

\* The commands of a sequence that are not blank
RECURSIVE NonBlank(_)
NonBlank(submitted) ==
    IF submitted = <<>> THEN <<>>
    ELSE IF Trim(submitted[1]) = <<>> THEN NonBlank(Tail(submitted))
    ELSE <<submitted[1]>> \o NonBlank(Tail(submitted))

\* A sequence with each run of equal neighbours taken once
RECURSIVE Collapsed(_)
Collapsed(s) ==
    IF Len(s) < 2 THEN s
    ELSE IF s[1] = s[2] THEN Collapsed(Tail(s))
    ELSE <<s[1]>> \o Collapsed(Tail(s))

\* The last n elements of a sequence
Newest(s, n) ==
    IF Len(s) <= n THEN s ELSE SubSeq(s, Len(s) - n + 1, Len(s))

\* C39: history content invariant: after any sequence of add and clear calls
\* starting from an empty history, the history holds at most maxSize entries
\* (the oldest is evicted first), contains no blank entry and no two adjacent
\* equal entries, and its entries are in submission order.
C39_HistoryContent ==
    /\ Len(history.history) <= HistoryMaxSize
    /\ \A i \in 1..Len(history.history) : Trim(history.history[i]) # <<>>
    /\ \A i \in 1..(Len(history.history) - 1) : history.history[i] # history.history[i + 1]
    /\ history.history = Newest(Collapsed(NonBlank(last.submitted)), HistoryMaxSize)

\* After add of a, a, b and a, the history of two entries holds b and a
C39_Witness ==
    /\ last.op = "add"
    /\ last.submitted = << <<"a">>, <<"a">>, <<"b">>, <<"a">> >>
    /\ history.history = << <<"b">>, <<"a">> >>

\* C40: history cursor: in every reachable state currentIndex lies in
\* [-1, history length]; after a command is entered (handleEnter: add then
\* resetIndex) the first getPrevious returns the most recent entry, k
\* successive getPrevious calls walk back through the k most recent entries in
\* reverse order, getPrevious at the oldest entry returns undefined without
\* moving the cursor, and getNext from the newest entry returns the empty
\* string and parks the cursor at the history length.
C40_Cursor ==
    /\ [](/\ history.currentIndex >= -1
          /\ history.currentIndex <= Len(history.history))
    /\ [](\A k \in 1..HistoryMaxSize :
              (last.op = "getPrevious" /\ last.run = k /\ k <= Len(history.history))
                  => /\ last.ret = Some(history.history[Len(history.history) - k + 1])
                     /\ history.currentIndex = Len(history.history) - k)
    /\ [][ (last'.op = "getPrevious" /\ history.currentIndex = 0)
               => /\ last'.ret = Undefined
                  /\ history'.currentIndex = 0 ]_vars
    /\ [][ (/\ last'.op = "getNext"
            /\ Len(history.history) > 0
            /\ history.currentIndex = Len(history.history) - 1)
               => /\ last'.ret = Some(<<>>)
                  /\ history'.currentIndex = Len(history.history)
                  /\ history'.history = history.history ]_vars

\* After Enter on a and on b, the second getPrevious in a row has returned a
C40_Witness ==
    /\ last.op = "getPrevious"
    /\ last.run = 2
    /\ history.history = << <<"a">>, <<"b">> >>
    /\ last.ret = Some(<<"a">>)
    /\ history.currentIndex = 0
=============================================================================
